---------------------------- MODULE Spec2Model ----------------------------
(***************************************************************************)
(* Model of the FewKnow analysis server (src/api/server.py): the in-memory *)
(* job state store (analysis_status, analysis_cache), the push channel     *)
(* (ConnectionManager), the background pipeline run_analysis and the HTTP  *)
(* and WebSocket handlers.                                                  *)
(*                                                                         *)
(* The server is a single asyncio event loop.  A coroutine runs without    *)
(* interruption until it reaches an await that really suspends (a network  *)
(* send to a listener, the accept handshake, the discussion collector).    *)
(* The variable cur names the task that holds the loop: Idle when every    *)
(* task is suspended, a job id while that job's run_analysis is running,   *)
(* including while it sits in a blocking (non-async) collaborator call.    *)
(* Time is counted in whole hours.                                         *)
(***************************************************************************)
EXTENDS Integers, Sequences, FiniteSets, TLC

(***************************************************************************)
(* Bounds of the model.                                                    *)
(***************************************************************************)
MaxJobs == 2          \* job ids issued by start_analysis
MaxListeners == 2     \* websocket connections ever opened
MaxTicks == 2         \* number of times the clock advances

\* The client populations explored.  A run has at most env.jobs submissions,
\* env.listeners websocket connections and env.ticks advances of the clock;
\* the full product of the three bounds is too large to enumerate, so each
\* population is at its bound in some dimensions and reduced in the others.
OneJobOneListener ==
    [ jobs |-> MaxJobs - 1, listeners |-> MaxListeners - 1, ticks |-> MaxTicks ]
TwoJobs ==
    [ jobs |-> MaxJobs, listeners |-> 0, ticks |-> MaxTicks ]
TwoListeners ==
    [ jobs |-> MaxJobs - 1, listeners |-> MaxListeners, ticks |-> 0 ]
OneJobClock ==
    [ jobs |-> MaxJobs - 1, listeners |-> 0, ticks |-> MaxTicks - 1 ]
TwoJobsOneListener ==
    [ jobs |-> MaxJobs, listeners |-> MaxListeners - 1, ticks |-> 0 ]

JobIds == 1..MaxJobs
Listeners == 1..MaxListeners

(***************************************************************************)
(* Program constants.                                                      *)
(***************************************************************************)
CACHE_TTL_HOURS == 24

FAILED_TTL_AS_SUCCESS == CACHE_TTL_HOURS

FAILED_TTL_HOURS == 1

\* Amounts by which the clock advances in one step (hours).
TickSteps == {1, CACHE_TTL_HOURS}

Idle == 0
NoRecord == [status |-> "none"]
NoEntry == [expires_at |-> -1]
NoListener == 0
NoSend == [to |-> NoListener]
NoExc == [type |-> "none", msg |-> ""]

\* Exceptions a collaborator can raise: str(e) may be empty.
Exceptions ==
    { [type |-> "ValueError", msg |-> "not found"],
      [type |-> "TimeoutError", msg |-> ""] }

\* What run_analysis can catch: the exceptions of its collaborators.
RaisedByCollaborators == Exceptions

\* Tickers a client can submit (request.ticker before normalisation).
Tickers == {"abcd", "  "}

(***************************************************************************)
(* State.                                                                  *)
(***************************************************************************)
VARIABLES
    env,                 \* the client population of the run (never changes)
    analysis_status,     \* job id -> status record, or NoRecord
    analysis_cache,      \* job id -> envelope {result, expires_at}, or NoEntry
    active_connections,  \* job id -> registered listener, or NoListener
    now,                 \* datetime.now(), in hours
    ticks,               \* how often the clock advanced
    next_job,            \* the next fresh job id (uuid4)
    cur,                 \* the task holding the event loop
    pc,                  \* job id -> position of run_analysis
    exc,                 \* job id -> the exception caught by run_analysis
    result,              \* job id -> the local result dict of run_analysis
    reddit_posts,        \* job id -> len(reddit_posts) of run_analysis, -1 unset
    sending,             \* job id -> the send_json the job is suspended in
    ws_pc,               \* listener -> position of websocket_endpoint
    ws_job,              \* listener -> the job id of its URL
    ws_sending,          \* listener -> the replay send_json it is suspended in
    inbox,               \* listener -> events delivered to the client
    writes,              \* job id -> statuses written to the store, in order
    calls,               \* job id -> collaborators invoked, in order
    dropped,             \* events published while no listener was registered
    last_reg,            \* job id -> listener that registered last
    expired_seen,        \* job ids for which get_result answered "expired"
    swept,               \* job ids removed by cleanup_expired_cache
    forest,              \* _extract_quality_comments: the submission's reply tree
    max_comments,        \* _extract_quality_comments: its max_comments argument
    comment_queue,       \* _extract_quality_comments: comment_queue
    quality_comments,    \* _extract_quality_comments: quality_comments
    entered,             \* comments in the order they entered comment_queue
    t_pc,                \* position of _extract_quality_comments
    environ,             \* os.environ: the credential variables that are set
    news_fetch,          \* job id -> what its request to the news provider met
    feed,                \* what each subreddit search yields
    c_pc,                \* position of collect_reddit_data
    sub_i,               \* index of subreddit_name in subreddits
    query_i,             \* index of query in queries
    hit_i,               \* number of the next hit of the current search
    all_posts,           \* collect_reddit_data: all_posts
    submissions_to_process,  \* collect_reddit_data: submissions_to_process
    top_submissions,     \* collect_reddit_data: top_submissions
    ex_i,                \* index of the next entry of top_submissions
    session,             \* the asyncpraw.Reddit session: none, open, closed
    searched,            \* the (subreddit, query) pairs whose search was started
    loaded,              \* submissions given to _extract_quality_comments
    seen,                \* the hits the searches produced, in order
    checked,             \* attributes the filter read on the last hit
    pool,                \* all_posts before the final sort
    teardown,            \* outcomes of the await reddit.close() calls, in order
    c_exc                \* the exception collect_reddit_data is raising

server_vars == << env, analysis_status, analysis_cache, active_connections, now, ticks,
                  next_job, cur, pc, exc, result, reddit_posts, sending, ws_pc,
                  ws_job, ws_sending, inbox, writes, calls, dropped, last_reg,
                  expired_seen, swept >>

\* State of src/api/core.py.
traverse_vars == << forest, max_comments, comment_queue, quality_comments,
                   entered, t_pc >>
collect_vars == << feed, c_pc, sub_i, query_i, hit_i, all_posts,
                  submissions_to_process, top_submissions, ex_i, session,
                  searched, loaded, seen, checked, pool, teardown, c_exc >>
\* The process environment and the news provider.
world_vars == << environ, news_fetch >>
core_vars == << traverse_vars, world_vars, collect_vars >>

\* State no step of the server changes.
fixed_vars == << env, core_vars >>

vars == << server_vars, core_vars >>

store_vars == << fixed_vars, analysis_status, analysis_cache >>
job_vars == << pc, exc, result, reddit_posts, sending, writes, calls >>
ws_vars == << ws_pc, ws_job, ws_sending, last_reg >>
evict_vars == << expired_seen, swept >>

(***************************************************************************)
(* Strings.  A formatted string is the tuple of its fragments; it is empty *)
(* when every fragment is empty.                                           *)
(***************************************************************************)
IsEmptyStr(s) == \A i \in DOMAIN s : s[i] = ""

\* request.ticker.upper().strip()
NormalizeTicker(t) ==
    CASE t = "abcd" -> "ABCD"
      [] t = "  " -> ""
      [] OTHER -> t

\* error_msg = str(e) if str(e) else f"{type(e).__name__} occurred"
error_msg_raw(e) == << e.msg >>

error_msg(e) == IF e.msg # "" THEN << e.msg >> ELSE << e.type, " occurred" >>

\* f"Error: {error_msg}"
ErrorMessage(m) == << "Error: " >> \o m

(***************************************************************************)
(* Job state store.                                                        *)
(***************************************************************************)
\* status_update of update_status.  seq, the number of the write, stands for
\* the identity of the dict and for its updated_at stamp.
StatusRecord(j, status, progress, message, n) ==
    [ job_id |-> j, status |-> status, progress |-> progress,
      message |-> message, seq |-> n ]

\* {"result": result, "expires_at": datetime.now() + timedelta(hours=ttl)}
Envelope(res, t, ttl) ==
    [ result |-> res, expires_at |-> t + ttl ]

HasEntry(cache, j) == cache[j] # NoEntry
HasStatus(status, j) == status[j] # NoRecord

\* entry["expires_at"] < now
IsExpired(entry, t) == entry.expires_at < t

\* expired_jobs of cleanup_expired_cache
ExpiredJobs(cache, t) ==
    { j \in JobIds : HasEntry(cache, j) /\ IsExpired(cache[j], t) }

\* analysis_cache.pop(job_id, None) for every job of a set
PopAll(store, jobs, none) ==
    [ j \in JobIds |-> IF j \in jobs THEN none ELSE store[j] ]

cleanup_cache_keep(cache, t) == cache

cleanup_cache(cache, t) == PopAll(cache, ExpiredJobs(cache, t), NoEntry)

cleanup_status_keep(status, cache, t) == status

cleanup_status_without_envelope(status, cache, t) ==
    PopAll(status, ExpiredJobs(cache, t) \cup { j \in JobIds : ~HasEntry(cache, j) },
           NoRecord)

cleanup_status_every_entry(status, cache, t) ==
    PopAll(status, { j \in JobIds : HasEntry(cache, j) }, NoRecord)

cleanup_status(status, cache, t) ==
    PopAll(status, ExpiredJobs(cache, t), NoRecord)

(***************************************************************************)
(* Events of the push channel.  via is "publish" for an event sent by      *)
(* send_update and "replay" for one sent by websocket_endpoint itself.     *)
(***************************************************************************)
StatusEvent(rec, via) ==
    [ type |-> "status", job |-> rec.job_id, via |-> via, data |-> rec ]

ResultEvent(j, res, via) ==
    [ type |-> "result", job |-> j, via |-> via, data |-> res ]

ErrorEvent(j, m) ==
    [ type |-> "error", job |-> j, via |-> "publish", data |-> [ error |-> m ] ]

(***************************************************************************)
(* ConnectionManager.                                                      *)
(***************************************************************************)
\* self.active_connections[job_id] = websocket
connect_keep_first(conns, j, l) ==
    IF conns[j] = NoListener THEN [ conns EXCEPT ![j] = l ] ELSE conns

connect(conns, j, l) == [ conns EXCEPT ![j] = l ]

\* if job_id in self.active_connections: del self.active_connections[job_id]
disconnect_keep(conns, j) == conns

disconnect(conns, j) == [ conns EXCEPT ![j] = NoListener ]

\* A send_json to listener l can succeed only while its websocket is open.
IsOpen(l) == ws_pc[l] \in {"replay_status", "replay_result", "loop", "pong"}

DeliveryOutcomes_hang(l) == IF IsOpen(l) THEN {TRUE, FALSE} ELSE {}

DeliveryOutcomes(l) == IF IsOpen(l) THEN {TRUE, FALSE} ELSE {FALSE}

\* if job_id in self.active_connections: the websocket send_update sends to
send_update_target_any_open(conns, j) ==
    IF conns[j] # NoListener THEN conns[j]
    ELSE IF \E l \in Listeners : ws_job[l] = j /\ IsOpen(l)
         THEN CHOOSE l \in Listeners : ws_job[l] = j /\ IsOpen(l)
         ELSE NoListener

send_update_target(conns, j) == conns[j]

\* manager.send_update(job_id, message) called by the task of job j: with a
\* listener registered the task suspends in send_json, otherwise it goes on.
send_update(j, evt) ==
    LET to == send_update_target(active_connections, j) IN
    /\ IF to # NoListener
       THEN /\ sending' = [ sending EXCEPT ![j] = [ to |-> to, msg |-> evt ] ]
            /\ cur' = Idle
       ELSE /\ sending' = sending
            /\ cur' = j
    /\ dropped' = IF active_connections[j] = NoListener
                  THEN dropped \cup {evt} ELSE dropped

\* update_status(job_id, status, progress, message), then control at next
update_status_emit_before_write(j, status, progress, message, next) ==
    LET rec == StatusRecord(j, status, progress, message, Len(writes[j]) + 1) IN
    /\ analysis_status' = [ analysis_status EXCEPT ![j] = rec ]
    /\ writes' = [ writes EXCEPT ![j] = Append(@, status) ]
    /\ send_update(j, StatusEvent(analysis_status[j], "publish"))
    /\ pc' = [ pc EXCEPT ![j] = next ]

update_status_one_record(j, status, progress, message, next) ==
    LET rec == StatusRecord(j, status, progress, message, Len(writes[j]) + 1) IN
    /\ analysis_status' =
         [ k \in JobIds |-> IF k = j \/ HasStatus(analysis_status, k)
                            THEN rec ELSE analysis_status[k] ]
    /\ writes' = [ writes EXCEPT ![j] = Append(@, status) ]
    /\ send_update(j, StatusEvent(rec, "publish"))
    /\ pc' = [ pc EXCEPT ![j] = next ]

update_status(j, status, progress, message, next) ==
    LET rec == StatusRecord(j, status, progress, message, Len(writes[j]) + 1) IN
    /\ analysis_status' = [ analysis_status EXCEPT ![j] = rec ]
    /\ writes' = [ writes EXCEPT ![j] = Append(@, status) ]
    /\ send_update(j, StatusEvent(rec, "publish"))
    /\ pc' = [ pc EXCEPT ![j] = next ]

(***************************************************************************)
(* run_analysis.                                                           *)
(***************************************************************************)
InitialResult(j) ==
    [ job_id |-> j, status |-> "processing", ticker |-> "ABCD",
      company_info |-> FALSE, earnings_metadata |-> FALSE,
      price_performance |-> FALSE, news_articles |-> -1,
      reddit_analysis |-> "absent", insight_report |-> "absent",
      error |-> << >> ]

FailedResult(j, m) ==
    [ InitialResult(j) EXCEPT !.status = "failed", !.error = m ]

\* Outcomes of the collaborators (src/api/core.py).
NewsCounts == {0, 2}
RedditCounts == {0, 3}

Running(j) == cur = j /\ sending[j] = NoSend

\* The background task starts: update_status(job_id, "processing", "0%", ...)
TaskStart(j) ==
    /\ pc[j] = "queued" /\ cur = Idle
    /\ result' = [ result EXCEPT ![j] = InitialResult(j) ]
    /\ update_status(j, "processing", "0%", << "Starting analysis..." >>, "u10")
    /\ UNCHANGED << reddit_posts, fixed_vars, analysis_cache, active_connections,
                    now, ticks, next_job,
                    exc, calls, ws_vars, inbox, evict_vars >>

\* The progress updates that precede each step.
ProgressOf_price_before_earnings(p) ==
    CASE p = "u10" -> << "10%", "Validating ticker...", "validate_ticker" >>
      [] p = "u25" -> << "35%", "Analyzing price performance...", "analyze_price_performance" >>
      [] p = "u35" -> << "25%", "Fetching earnings data...", "get_earnings_metadata" >>
      [] p = "u45" -> << "45%", "Fetching recent news...", "collect_news_articles" >>
      [] p = "u60" -> << "60%", "Collecting Reddit discussions...", "collect_reddit_data" >>
      [] p = "u75" -> << "75%", "Analyzing sentiment with AI...", "analyze_reddit_with_llm" >>
      [] p = "u85" -> << "85%", "Generating insights...", "generate_insight_report" >>

ProgressOf(p) ==
    CASE p = "u10" -> << "10%", "Validating ticker...", "validate_ticker" >>
      [] p = "u25" -> << "25%", "Fetching earnings data...", "get_earnings_metadata" >>
      [] p = "u35" -> << "35%", "Analyzing price performance...", "analyze_price_performance" >>
      [] p = "u45" -> << "45%", "Fetching recent news...", "collect_news_articles" >>
      [] p = "u60" -> << "60%", "Collecting Reddit discussions...", "collect_reddit_data" >>
      [] p = "u75" -> << "75%", "Analyzing sentiment with AI...", "analyze_reddit_with_llm" >>
      [] p = "u85" -> << "85%", "Generating insights...", "generate_insight_report" >>

ProgressLabels == {"u10", "u25", "u35", "u45", "u60", "u75", "u85"}

Progress(j) ==
    /\ pc[j] \in ProgressLabels /\ Running(j)
    /\ LET p == ProgressOf(pc[j]) IN
       update_status(j, "processing", p[1], << p[2] >>, p[3])
    /\ UNCHANGED << reddit_posts, fixed_vars, analysis_cache, active_connections,
                    now, ticks, next_job,
                    exc, result, calls, ws_vars, inbox, evict_vars >>

\* raise inside the try block of run_analysis
Raise(j, e) ==
    /\ pc' = [ pc EXCEPT ![j] = "except" ]
    /\ exc' = [ exc EXCEPT ![j] = e ]
    /\ result' = result

SendDone_propagates(j) ==
    /\ cur = Idle /\ sending[j] # NoSend
    /\ \E ok \in DeliveryOutcomes(sending[j].to) :
         IF ok
         THEN /\ inbox' = [ inbox EXCEPT ![sending[j].to] = Append(@, sending[j].msg) ]
              /\ active_connections' = active_connections
              /\ UNCHANGED << pc, exc, result >>
         ELSE /\ inbox' = inbox
              /\ active_connections' = disconnect(active_connections, j)
              /\ Raise(j, [ type |-> "RuntimeError", msg |-> "" ])
    /\ sending' = [ sending EXCEPT ![j] = NoSend ]
    /\ cur' = j
    /\ UNCHANGED << reddit_posts, store_vars, now, ticks, next_job, writes,
                    calls, ws_vars, dropped, evict_vars >>

SendDone_needs_listener(j) ==
    /\ cur = Idle /\ sending[j] # NoSend
    /\ active_connections[j] # NoListener
    /\ \E ok \in DeliveryOutcomes(sending[j].to) :
         IF ok
         THEN /\ inbox' = [ inbox EXCEPT ![sending[j].to] = Append(@, sending[j].msg) ]
              /\ active_connections' = active_connections
         ELSE /\ inbox' = inbox
              /\ active_connections' = disconnect(active_connections, j)
    /\ sending' = [ sending EXCEPT ![j] = NoSend ]
    /\ cur' = j
    /\ UNCHANGED << reddit_posts, store_vars, now, ticks, next_job, pc, exc,
                    result, writes,
                    calls, ws_vars, dropped, evict_vars >>

\* The send_json a job is suspended in completes or raises; on an exception
\* send_update calls self.disconnect(job_id).
SendDone(j) ==
    /\ cur = Idle /\ sending[j] # NoSend
    /\ \E ok \in DeliveryOutcomes(sending[j].to) :
         IF ok
         THEN /\ inbox' = [ inbox EXCEPT ![sending[j].to] = Append(@, sending[j].msg) ]
              /\ active_connections' = active_connections
         ELSE /\ inbox' = inbox
              /\ active_connections' = disconnect(active_connections, j)
    /\ sending' = [ sending EXCEPT ![j] = NoSend ]
    /\ cur' = j
    /\ UNCHANGED << reddit_posts, store_vars, now, ticks, next_job, pc, exc,
                    result, writes,
                    calls, ws_vars, dropped, evict_vars >>

\* A blocking collaborator call: it returns or raises while the job holds the
\* event loop.
Step1_validate_ticker(j) ==
    /\ pc[j] = "validate_ticker" /\ Running(j)
    /\ calls' = [ calls EXCEPT ![j] = Append(@, "validate_ticker") ]
    /\ \/ /\ pc' = [ pc EXCEPT ![j] = "u25" ]
          /\ result' = [ result EXCEPT ![j].company_info = TRUE ]
          /\ exc' = exc
       \/ \E e \in Exceptions : Raise(j, e)
    /\ UNCHANGED << reddit_posts, store_vars, active_connections, now, ticks,
                    next_job, cur,
                    sending, writes, ws_vars, inbox, dropped, evict_vars >>

Step2_get_earnings_metadata(j) ==
    /\ pc[j] = "get_earnings_metadata" /\ Running(j)
    /\ calls' = [ calls EXCEPT ![j] = Append(@, "get_earnings_metadata") ]
    /\ \/ /\ pc' = [ pc EXCEPT ![j] = "u35" ]
          /\ result' = [ result EXCEPT ![j].earnings_metadata = TRUE ]
          /\ exc' = exc
       \/ \E e \in Exceptions : Raise(j, e)
    /\ UNCHANGED << reddit_posts, store_vars, active_connections, now, ticks,
                    next_job, cur,
                    sending, writes, ws_vars, inbox, dropped, evict_vars >>

Step3_analyze_price_performance(j) ==
    /\ pc[j] = "analyze_price_performance" /\ Running(j)
    /\ calls' = [ calls EXCEPT ![j] = Append(@, "analyze_price_performance") ]
    /\ \/ /\ pc' = [ pc EXCEPT ![j] = "u45" ]
          /\ result' = [ result EXCEPT ![j].price_performance = TRUE ]
          /\ exc' = exc
       \/ \E e \in Exceptions : Raise(j, e)
    /\ UNCHANGED << reddit_posts, store_vars, active_connections, now, ticks,
                    next_job, cur,
                    sending, writes, ws_vars, inbox, dropped, evict_vars >>

\* collect_news_articles catches every exception and returns a list.
Step4_collect_news_articles(j) ==
    /\ pc[j] = "collect_news_articles" /\ Running(j)
    /\ calls' = [ calls EXCEPT ![j] = Append(@, "collect_news_articles") ]
    /\ \E n \in NewsCounts :
         result' = [ result EXCEPT ![j].news_articles = n ]
    /\ pc' = [ pc EXCEPT ![j] = "u60" ]
    /\ UNCHANGED << reddit_posts, store_vars, active_connections, now, ticks,
                    next_job, cur,
                    exc, sending, writes, ws_vars, inbox, dropped, evict_vars >>

\* await collect_reddit_data(...): the credential check raises at once,
\* otherwise the task suspends in the collector's network calls.
Step5_collect_reddit_data(j) ==
    /\ pc[j] = "collect_reddit_data" /\ Running(j)
    /\ calls' = [ calls EXCEPT ![j] = Append(@, "collect_reddit_data") ]
    /\ \/ /\ pc' = [ pc EXCEPT ![j] = "await_reddit" ]
          /\ cur' = Idle
          /\ UNCHANGED << exc, result >>
       \/ /\ Raise(j, [ type |-> "ValueError", msg |-> "not found" ])
          /\ cur' = cur
    /\ UNCHANGED << reddit_posts, store_vars, active_connections, now, ticks,
                    next_job,
                    sending, writes, ws_vars, inbox, dropped, evict_vars >>

\* if not reddit_posts: the degraded path, else the two LLM analyses
reddit_branch_always_llm(n) == "u75"

reddit_branch(n) == IF n = 0 THEN "u90" ELSE "u75"

\* collect_reddit_data returns its list or raises.
RedditReturns(j) ==
    /\ pc[j] = "await_reddit" /\ cur = Idle
    /\ cur' = j
    /\ \/ \E n \in RedditCounts :
            /\ reddit_posts' = [ reddit_posts EXCEPT ![j] = n ]
            /\ pc' = [ pc EXCEPT ![j] = reddit_branch(n) ]
            /\ UNCHANGED << exc, result >>
       \/ /\ \E e \in Exceptions : Raise(j, e)
          /\ reddit_posts' = reddit_posts
    /\ UNCHANGED << store_vars, active_connections, now, ticks, next_job,
                    sending, writes, calls, ws_vars, inbox, dropped,
                    evict_vars >>

\* No discussion data: reddit_analysis and insight_report are set to None and
\* the 90% status is published.
NoRedditData(j) ==
    /\ pc[j] = "u90" /\ Running(j)
    /\ result' = [ result EXCEPT ![j].reddit_analysis = "null",
                                 ![j].insight_report = "null" ]
    /\ update_status(j, "processing", "90%", << "Finalizing report..." >>,
                     "minimal_report")
    /\ UNCHANGED << reddit_posts, fixed_vars, analysis_cache, active_connections,
                    now, ticks, next_job,
                    exc, calls, ws_vars, inbox, evict_vars >>

\* minimal_report = InsightReport(...); result["insight_report"] = its dump
MinimalReport(j) ==
    /\ pc[j] = "minimal_report" /\ Running(j)
    /\ result' = [ result EXCEPT ![j].insight_report = "minimal" ]
    /\ pc' = [ pc EXCEPT ![j] = "complete" ]
    /\ UNCHANGED << reddit_posts, store_vars, active_connections, now, ticks,
                    next_job, cur,
                    exc, sending, writes, calls, ws_vars, inbox, dropped,
                    evict_vars >>

Step6_analyze_reddit_with_llm(j) ==
    /\ pc[j] = "analyze_reddit_with_llm" /\ Running(j)
    /\ calls' = [ calls EXCEPT ![j] = Append(@, "analyze_reddit_with_llm") ]
    /\ \/ /\ pc' = [ pc EXCEPT ![j] = "u85" ]
          /\ result' = [ result EXCEPT ![j].reddit_analysis = "obj" ]
          /\ exc' = exc
       \/ \E e \in Exceptions : Raise(j, e)
    /\ UNCHANGED << reddit_posts, store_vars, active_connections, now, ticks,
                    next_job, cur,
                    sending, writes, ws_vars, inbox, dropped, evict_vars >>

Step7_generate_insight_report(j) ==
    /\ pc[j] = "generate_insight_report" /\ Running(j)
    /\ calls' = [ calls EXCEPT ![j] = Append(@, "generate_insight_report") ]
    /\ \/ /\ pc' = [ pc EXCEPT ![j] = "complete" ]
          /\ result' = [ result EXCEPT ![j].insight_report = "llm" ]
          /\ exc' = exc
       \/ \E e \in Exceptions : Raise(j, e)
    /\ UNCHANGED << reddit_posts, store_vars, active_connections, now, ticks,
                    next_job, cur,
                    sending, writes, ws_vars, inbox, dropped, evict_vars >>

\* result["status"] = "completed"; the envelope is stored with the long TTL;
\* update_status(job_id, "completed", "100%", ...)
Complete(j) ==
    /\ pc[j] = "complete" /\ Running(j)
    /\ LET res == [ result[j] EXCEPT !.status = "completed" ] IN
       /\ result' = [ result EXCEPT ![j] = res ]
       /\ analysis_cache' =
            [ analysis_cache EXCEPT ![j] = Envelope(res, now, CACHE_TTL_HOURS) ]
    /\ update_status(j, "completed", "100%", << "Analysis complete!" >>,
                     "send_result")
    /\ UNCHANGED << reddit_posts, fixed_vars, active_connections, now, ticks,
                    next_job, exc, calls,
                    ws_vars, inbox, evict_vars >>

\* manager.send_update(job_id, {"type": "result", "data": result})
SendResult(j) ==
    /\ pc[j] = "send_result" /\ Running(j)
    /\ send_update(j, ResultEvent(j, result[j], "publish"))
    /\ pc' = [ pc EXCEPT ![j] = "done" ]
    /\ UNCHANGED << reddit_posts, store_vars, active_connections, now, ticks,
                    next_job, exc,
                    result, writes, calls, ws_vars, inbox, evict_vars >>

\* except Exception as e: the failure payload is stored with the short TTL;
\* update_status(job_id, "failed", "0%", f"Error: {error_msg}")
Except(j) ==
    /\ pc[j] = "except" /\ Running(j)
    /\ LET res == FailedResult(j, error_msg(exc[j])) IN
       /\ result' = [ result EXCEPT ![j] = res ]
       /\ analysis_cache' =
            [ analysis_cache EXCEPT ![j] = Envelope(res, now, FAILED_TTL_HOURS) ]
    /\ update_status(j, "failed", "0%", ErrorMessage(error_msg(exc[j])),
                     "send_error")
    /\ UNCHANGED << reddit_posts, fixed_vars, active_connections, now, ticks,
                    next_job, exc, calls,
                    ws_vars, inbox, evict_vars >>

\* manager.send_update(job_id, {"type": "error", "data": {"error": error_msg}})
SendError(j) ==
    /\ pc[j] = "send_error" /\ Running(j)
    /\ send_update(j, ErrorEvent(j, error_msg(exc[j])))
    /\ pc' = [ pc EXCEPT ![j] = "done" ]
    /\ UNCHANGED << reddit_posts, store_vars, active_connections, now, ticks,
                    next_job, exc,
                    result, writes, calls, ws_vars, inbox, evict_vars >>

\* run_analysis returns: the background task ends.
TaskEnd(j) ==
    /\ pc[j] = "done" /\ Running(j)
    /\ pc' = [ pc EXCEPT ![j] = "finished" ]
    /\ cur' = Idle
    /\ UNCHANGED << reddit_posts, store_vars, active_connections, now, ticks,
                    next_job, exc,
                    result, sending, writes, calls, ws_vars, inbox, dropped,
                    evict_vars >>

(***************************************************************************)
(* websocket_endpoint.                                                     *)
(***************************************************************************)
NoEvent == [ type |-> "none" ]

\* "Send result if already completed": the cached result is replayed when the
\* job has an envelope, else the endpoint enters its receive loop.
ReplayResult_unless_expired(l, j) ==
    IF HasEntry(analysis_cache, j) /\ ~IsExpired(analysis_cache[j], now)
    THEN /\ ws_pc' = [ ws_pc EXCEPT ![l] = "replay_result" ]
         /\ ws_sending' = [ ws_sending EXCEPT ![l] =
                              ResultEvent(j, analysis_cache[j].result, "replay") ]
    ELSE /\ ws_pc' = [ ws_pc EXCEPT ![l] = "loop" ]
         /\ ws_sending' = [ ws_sending EXCEPT ![l] = NoEvent ]

ReplayResult(l, j) ==
    IF HasEntry(analysis_cache, j)
    THEN /\ ws_pc' = [ ws_pc EXCEPT ![l] = "replay_result" ]
         /\ ws_sending' = [ ws_sending EXCEPT ![l] =
                              ResultEvent(j, analysis_cache[j].result, "replay") ]
    ELSE /\ ws_pc' = [ ws_pc EXCEPT ![l] = "loop" ]
         /\ ws_sending' = [ ws_sending EXCEPT ![l] = NoEvent ]

\* except/finally of websocket_endpoint: manager.disconnect(job_id)
WsClose_own_registration(l) ==
    /\ ws_pc' = [ ws_pc EXCEPT ![l] = "closed" ]
    /\ ws_sending' = [ ws_sending EXCEPT ![l] = NoEvent ]
    /\ active_connections' =
         IF active_connections[ws_job[l]] = l
         THEN disconnect(active_connections, ws_job[l])
         ELSE active_connections

WsClose(l) ==
    /\ ws_pc' = [ ws_pc EXCEPT ![l] = "closed" ]
    /\ ws_sending' = [ ws_sending EXCEPT ![l] = NoEvent ]
    /\ active_connections' = disconnect(active_connections, ws_job[l])

\* A client opens /ws/{job_id}: manager.connect awaits websocket.accept().
\* Job ids are uuid4 values, so a client knows only ids already issued.
WsConnect(l, j) ==
    /\ ws_pc[l] = "idle" /\ cur = Idle
    /\ l <= env.listeners
    /\ \A k \in Listeners : k < l => ws_pc[k] # "idle"
    /\ j < next_job
    /\ ws_pc' = [ ws_pc EXCEPT ![l] = "accepting" ]
    /\ ws_job' = [ ws_job EXCEPT ![l] = j ]
    /\ UNCHANGED << store_vars, active_connections, now, ticks, next_job, cur,
                    job_vars, ws_sending, last_reg, inbox, dropped,
                    evict_vars >>

\* accept() returns and the listener is registered, then the current status
\* is replayed; or accept() raises, outside the try block of the endpoint.
WsAccepted(l) ==
    /\ ws_pc[l] = "accepting" /\ cur = Idle
    /\ \/ /\ active_connections' = connect(active_connections, ws_job[l], l)
          /\ last_reg' = [ last_reg EXCEPT ![ws_job[l]] = l ]
          /\ IF HasStatus(analysis_status, ws_job[l])
             THEN /\ ws_pc' = [ ws_pc EXCEPT ![l] = "replay_status" ]
                  /\ ws_sending' = [ ws_sending EXCEPT ![l] =
                        StatusEvent(analysis_status[ws_job[l]], "replay") ]
             ELSE ReplayResult(l, ws_job[l])
       \/ /\ ws_pc' = [ ws_pc EXCEPT ![l] = "closed" ]
          /\ UNCHANGED << active_connections, last_reg, ws_sending >>
    /\ UNCHANGED << store_vars, now, ticks, next_job, cur, job_vars, ws_job,
                    inbox, dropped, evict_vars >>

\* The replayed status was sent, or the send raised.
WsReplayStatusDone(l) ==
    /\ ws_pc[l] = "replay_status" /\ cur = Idle
    /\ \/ /\ inbox' = [ inbox EXCEPT ![l] = Append(@, ws_sending[l]) ]
          /\ ReplayResult(l, ws_job[l])
          /\ active_connections' = active_connections
       \/ /\ WsClose(l)
          /\ inbox' = inbox
    /\ UNCHANGED << store_vars, now, ticks, next_job, cur, job_vars, ws_job,
                    last_reg, dropped, evict_vars >>

\* The replayed result was sent, or the send raised.
WsReplayResultDone(l) ==
    /\ ws_pc[l] = "replay_result" /\ cur = Idle
    /\ \/ /\ inbox' = [ inbox EXCEPT ![l] = Append(@, ws_sending[l]) ]
          /\ ws_pc' = [ ws_pc EXCEPT ![l] = "loop" ]
          /\ ws_sending' = [ ws_sending EXCEPT ![l] = NoEvent ]
          /\ active_connections' = active_connections
       \/ /\ WsClose(l)
          /\ inbox' = inbox
    /\ UNCHANGED << store_vars, now, ticks, next_job, cur, job_vars, ws_job,
                    last_reg, dropped, evict_vars >>

\* receive_text() returns a client message: the endpoint sends {"type": "pong"}.
WsClientText(l) ==
    /\ ws_pc[l] = "loop" /\ cur = Idle
    /\ ws_pc' = [ ws_pc EXCEPT ![l] = "pong" ]
    /\ UNCHANGED << store_vars, active_connections, now, ticks, next_job, cur,
                    job_vars, ws_job, ws_sending, last_reg, inbox, dropped,
                    evict_vars >>

\* The pong was sent, or the send raised.
WsPongDone(l) ==
    /\ ws_pc[l] = "pong" /\ cur = Idle
    /\ \/ /\ ws_pc' = [ ws_pc EXCEPT ![l] = "loop" ]
          /\ UNCHANGED << ws_sending, active_connections >>
       \/ WsClose(l)
    /\ UNCHANGED << store_vars, now, ticks, next_job, cur, job_vars, ws_job,
                    last_reg, inbox, dropped, evict_vars >>

\* receive_text() raises WebSocketDisconnect: break, then finally.
WsClientClose(l) ==
    /\ ws_pc[l] = "loop" /\ cur = Idle
    /\ WsClose(l)
    /\ UNCHANGED << store_vars, now, ticks, next_job, cur, job_vars, ws_job,
                    last_reg, inbox, dropped, evict_vars >>

(***************************************************************************)
(* HTTP endpoints.                                                         *)
(***************************************************************************)
NotFound == "Results not found or expired"
Expired == "Results expired"

\* What get_result answers in the current state.
get_result_response(cache, j, t) ==
    IF ~HasEntry(cache, j) THEN NotFound
    ELSE IF IsExpired(cache[j], t) THEN Expired
    ELSE "ok"

\* What get_status answers in the current state.
get_status_response_when_cached(status, j) ==
    IF ~HasEntry(analysis_cache, j) THEN "Job not found" ELSE status[j].status

get_status_response(status, j) ==
    IF ~HasStatus(status, j) THEN "Job not found" ELSE status[j].status

\* analysis_cache.pop(job_id, None) of get_result
get_result_evict_keep(cache, j) == cache

get_result_evict(cache, j) == [ cache EXCEPT ![j] = NoEntry ]

\* GET /api/result/{job_id}
GetResult(j) ==
    /\ cur = Idle
    /\ j < next_job
    /\ IF get_result_response(analysis_cache, j, now) = Expired
       THEN /\ analysis_cache' = get_result_evict(analysis_cache, j)
            /\ analysis_status' = [ analysis_status EXCEPT ![j] = NoRecord ]
            /\ expired_seen' = expired_seen \cup {j}
       ELSE UNCHANGED << analysis_status, analysis_cache, expired_seen >>
    /\ swept' = swept
    /\ UNCHANGED << fixed_vars, active_connections, now, ticks, next_job, cur,
                    job_vars, ws_vars, inbox, dropped >>

\* POST /api/analyze
StartAnalysis(t) ==
    /\ cur = Idle
    /\ IF NormalizeTicker(t) = ""
       THEN UNCHANGED vars
       ELSE /\ next_job <= env.jobs
            /\ LET j == next_job
                   rec == StatusRecord(j, "pending", "0%",
                                       << "Analysis queued..." >>, 1)
               IN /\ analysis_cache' = cleanup_cache(analysis_cache, now)
                  /\ analysis_status' =
                       [ cleanup_status(analysis_status, analysis_cache, now)
                           EXCEPT ![j] = rec ]
                  /\ writes' = [ writes EXCEPT ![j] = << "pending" >> ]
                  /\ dropped' = dropped \cup { StatusEvent(rec, "publish") }
                  /\ pc' = [ pc EXCEPT ![j] = "queued" ]
                  /\ next_job' = j + 1
                  /\ swept' = swept \cup ExpiredJobs(analysis_cache, now)
            /\ UNCHANGED << reddit_posts, fixed_vars, active_connections, now, ticks, cur, exc,
                            result, reddit_posts, sending, calls, ws_vars,
                            inbox, expired_seen >>

\* The clock advances.
Tick ==
    /\ cur = Idle
    /\ ticks < env.ticks
    /\ ticks' = ticks + 1
    /\ \E d \in TickSteps : now' = now + d
    /\ UNCHANGED << store_vars, active_connections, next_job, cur, job_vars,
                    ws_vars, inbox, dropped, evict_vars >>

(***************************************************************************)
(* src/api/core.py: _extract_quality_comments.                             *)
(*                                                                         *)
(* A reply tree is a forest of n nodes numbered so that a parent comes     *)
(* before its replies and replies are listed in the order of their         *)
(* numbers: parent[i] < i, parent[i] = 0 for a top-level comment.  A node  *)
(* is a MoreComments placeholder or a comment with a score and a body;     *)
(* body is the length of the text, NoBody for a missing one.               *)
(***************************************************************************)
MaxNodes == 3            \* nodes of a reply tree
MaxMaxComments == 2      \* largest max_comments argument explored

MIN_COMMENT_SCORE == 5
MIN_COMMENT_LENGTH == 100
MAX_TEXT_LENGTH == 1000

NoBody == -1
MoreComments == [ more |-> TRUE, body |-> NoBody, score |-> 0 ]
Comment(score, body) == [ more |-> FALSE, body |-> body, score |-> score ]

\* The comments a tree is built from: at and around the quality bar.
CommentKinds ==
    { MoreComments,
      Comment(12, NoBody),
      Comment(MIN_COMMENT_SCORE - 1, 150),
      Comment(12, MIN_COMMENT_LENGTH),
      Comment(MIN_COMMENT_SCORE, MIN_COMMENT_LENGTH + 1),
      Comment(12, 150) }

EmptyForest == [ n |-> 0, parent |-> << >>, node |-> << >> ]

\* The parent sequences of n nodes: parent[i] < i.
RECURSIVE ParentSeqs(_)
ParentSeqs(n) ==
    IF n = 0 THEN { << >> }
    ELSE { Append(q, k) : q \in ParentSeqs(n - 1), k \in 0..(n - 1) }

ForestsOfSize(n) ==
    { [ n |-> n, parent |-> p, node |-> k ] :
        p \in ParentSeqs(n), k \in [ 1..n -> CommentKinds ] }

\* A MoreComments placeholder has no replies.
WellFormed(f) ==
    \A i \in 1..f.n : f.parent[i] # 0 => ~f.node[f.parent[i]].more

Forests(size) ==
    { f \in UNION { ForestsOfSize(n) : n \in 0..size } : WellFormed(f) }

\* Reply trees in which a placeholder stands for comments not yet fetched:
\* the nodes under a MoreComments node are what expanding it would bring in.
UnexpandedForests(size) ==
    { f \in UNION { ForestsOfSize(n) : n \in 0..size } : ~WellFormed(f) }

Min(a, b) == IF a <= b THEN a ELSE b

\* comments_forest._comments (p = 0) and comment.replies._comments (p > 0)
Replies(f, p) ==
    SelectSeq([ i \in 1..f.n |-> i ], LAMBDA i : f.parent[i] = p)

\* not body or score < 5 or len(body) <= 100
Disqualified_length_inclusive(c) ==
    \/ c.body = NoBody \/ c.body = 0
    \/ c.score < MIN_COMMENT_SCORE
    \/ c.body < MIN_COMMENT_LENGTH

Disqualified(c) ==
    \/ c.body = NoBody \/ c.body = 0
    \/ c.score < MIN_COMMENT_SCORE
    \/ c.body <= MIN_COMMENT_LENGTH

\* comment_data: id stands for the identity of the comment, text for the
\* length of body[:1000].
comment_data(sub, f, i) ==
    [ type |-> "comment", id |-> << sub, i >>,
      text |-> Min(f.node[i].body, MAX_TEXT_LENGTH),
      score |-> f.node[i].score ]

\* while comment_queue and len(quality_comments) < max_comments
LoopContinues_until_empty(queue, quality, max) == queue # << >>

LoopContinues_inclusive(queue, quality, max) ==
    queue # << >> /\ Len(quality) <= max

LoopContinues(queue, quality, max) ==
    queue # << >> /\ Len(quality) < max

\* comment_queue.pop(0)
pop_index_last(queue) == Len(queue)

pop_index(queue) == 1

\* The replies queued under a comment that failed the quality bar.
RepliesOfDisqualified_dropped(f, i) == << >>

RepliesOfDisqualified(f, i) == Replies(f, i)

Without(queue, k) == [ i \in 1..(Len(queue) - 1) |-> IF i < k THEN queue[i] ELSE queue[i + 1] ]

\* One iteration of the while loop on the state st = [queue, quality, entered].
BfsStep_expand_more(sub, f, st) ==
    LET k == pop_index(st.queue)
        c == st.queue[k]
        rest == Without(st.queue, k)
    IN  IF f.node[c].more \/ Disqualified(f.node[c])
        THEN [ st EXCEPT !.queue = rest \o RepliesOfDisqualified(f, c),
                         !.entered = @ \o RepliesOfDisqualified(f, c) ]
        ELSE [ queue |-> rest \o Replies(f, c),
               quality |-> Append(st.quality, comment_data(sub, f, c)),
               entered |-> st.entered \o Replies(f, c) ]

BfsStep(sub, f, st) ==
    LET k == pop_index(st.queue)
        c == st.queue[k]
        rest == Without(st.queue, k)
    IN  IF f.node[c].more
        THEN [ st EXCEPT !.queue = rest ]
        ELSE IF Disqualified(f.node[c])
        THEN [ st EXCEPT !.queue = rest \o RepliesOfDisqualified(f, c),
                         !.entered = @ \o RepliesOfDisqualified(f, c) ]
        ELSE [ queue |-> rest \o Replies(f, c),
               quality |-> Append(st.quality, comment_data(sub, f, c)),
               entered |-> st.entered \o Replies(f, c) ]

\* The submission whose comments the traversal specification extracts.
TheSubmission == 1

\* What reaching the comments of a submission does: the submission has no
\* comments attribute; submission.load() raises; load() returns and _comments
\* is still None; the tree is obtained and replace_more raises; the tree is
\* obtained and expanded (as is a tree that was loaded already).
FailedLoads ==
    << "no_comments_attribute", "load_failed", "still_unloaded",
       "replace_more_failed" >>

LoadOutcomes == {"loaded"} \cup { FailedLoads[i] : i \in DOMAIN FailedLoads }

\* except Exception as load_error: logger.debug(...); return None
on_load_error_reraise == "raise"

on_load_error == "none"

\* _load_submission_comments(submission): the forest, None, or an exception
load_submission_comments(load) ==
    CASE load = "no_comments_attribute" -> "none"
      [] load = "load_failed" -> on_load_error
      [] load = "still_unloaded" -> "none"
      [] OTHER -> "forest"

\* The first lines of _extract_quality_comments: if not comments_forest:
\* return []; try: await comments_forest.replace_more(limit=0) except
\* Exception: return [].  "traverse" when the loop is reached.
ExtractOutcome(load) ==
    CASE load_submission_comments(load) = "raise" -> "raise"
      [] load_submission_comments(load) = "none" -> "empty"
      [] load = "replace_more_failed" -> "empty"
      [] OTHER -> "traverse"

TraverseLoad ==
    /\ t_pc = "load"
    /\ \E o \in LoadOutcomes :
         CASE ExtractOutcome(o) = "traverse" ->
                /\ t_pc' = "loop"
                /\ comment_queue' = Replies(forest, 0)
                /\ entered' = Replies(forest, 0)
           [] ExtractOutcome(o) = "empty" ->
                /\ t_pc' = o
                /\ UNCHANGED << comment_queue, entered >>
           [] OTHER ->
                /\ t_pc' = "raised"
                /\ UNCHANGED << comment_queue, entered >>
    /\ quality_comments' = << >>
    /\ UNCHANGED << server_vars, world_vars, collect_vars, forest, max_comments >>

TraverseStep ==
    /\ t_pc = "loop"
    /\ LoopContinues(comment_queue, quality_comments, max_comments)
    /\ LET st == BfsStep(TheSubmission, forest,
                         [ queue |-> comment_queue, quality |-> quality_comments,
                           entered |-> entered ])
       IN  /\ comment_queue' = st.queue
           /\ quality_comments' = st.quality
           /\ entered' = st.entered
    /\ UNCHANGED << server_vars, world_vars, collect_vars, forest, max_comments, t_pc >>

\* return quality_comments
TraverseReturn ==
    /\ t_pc = "loop"
    /\ ~LoopContinues(comment_queue, quality_comments, max_comments)
    /\ t_pc' = "returned"
    /\ UNCHANGED << server_vars, world_vars, collect_vars, forest, max_comments, comment_queue,
                    quality_comments, entered >>

\* No traversal in progress.
TraverseIdle ==
    /\ forest = EmptyForest
    /\ max_comments = 0
    /\ comment_queue = << >>
    /\ quality_comments = << >>
    /\ entered = << >>
    /\ t_pc = "idle"


(***************************************************************************)
(* src/api/core.py: collect_reddit_data.                                   *)
(*                                                                         *)
(* feed[s][q] is what the search of subreddit s for query q yields: the    *)
(* hits it produces, in order, and whether it raises after them (a search  *)
(* that raises before its first hit has no hits).  A hit is a submission:  *)
(* created is created_utc - start_timestamp, author is the author's name   *)
(* or NoAuthor, selftext the length of its text, comments its reply tree   *)
(* and load what loading that tree does.                                   *)
(***************************************************************************)
MaxHits == 2             \* hits of the search whose hits vary freely
BulkHits == 6            \* hits per search of the large feeds

MIN_POST_SCORE == 10
MAX_REDDIT_SEARCH_LIMIT == 50
MAX_SUBMISSIONS_FOR_COMMENTS == 30
MAX_COMMENTS_PER_SUBMISSION == 5
MAX_TOTAL_POSTS == 100

\* subreddits = ['wallstreetbets', 'stocks', 'investing']
subreddits == << "wallstreetbets", "stocks", "investing" >>
\* queries = [f"${ticker}", company_name]
queries == << "$ABCD", "Abcd Inc" >>

Credentials == {"REDDIT_CLIENT_ID", "REDDIT_CLIENT_SECRET", "REDDIT_USER_AGENT"}

\* all([os.getenv(...), os.getenv(...), os.getenv(...)])
AllCredentials_any(vars_set) == Credentials \cap vars_set # {}

AllCredentials(vars_set) == Credentials \subseteq vars_set

NoAuthor == "<None>"

\* submission.author.name.lower()
Lower(name) ==
    CASE name = "AutoModerator" -> "automoderator"
      [] name = "Alice" -> "alice"
      [] OTHER -> name

\* 'automod' in <lower-cased name>
ContainsAutomod(name) == name \in {"automoderator", "automod"}

HitId(s, q, k) == ((s - 1) * Len(queries) + (q - 1)) * MAX_REDDIT_SEARCH_LIMIT + k

Hit(created, score, author) ==
    [ created |-> created, score |-> score, author |-> author ]

\* The hits a freely varying search is made of: each check failing alone, at
\* its boundary, and all failing together.
HitKinds ==
    { Hit(-1, 50, "Alice"),
      Hit(-1, MIN_POST_SCORE - 1, NoAuthor),
      Hit(0, MIN_POST_SCORE, "Alice"),
      Hit(1, MIN_POST_SCORE - 1, "Alice"),
      Hit(1, 50, NoAuthor),
      Hit(1, 50, "AutoModerator"),
      Hit(1, 50, "Alice") }

\* A reply tree with two qualifying comments under a disqualified one.
SmallForest ==
    [ n |-> 3, parent |-> << 0, 1, 1 >>,
      node |-> << Comment(MIN_COMMENT_SCORE - 1, 150), Comment(60, 150),
                  Comment(7, 1500) >> ]

\* A reply tree of qualifying comments, one more than the per-submission cap.
BulkForest(h) ==
    [ n |-> MAX_COMMENTS_PER_SUBMISSION + 1,
      parent |-> [ i \in 1..(MAX_COMMENTS_PER_SUBMISSION + 1) |-> i \div 3 ],
      node |-> [ i \in 1..(MAX_COMMENTS_PER_SUBMISSION + 1) |->
                   Comment(MIN_COMMENT_SCORE + ((h + 3 * i) % 30), 150) ] ]

Submission(id, hit, selftext, comments, load) ==
    [ id |-> id, created |-> hit.created, score |-> hit.score,
      author |-> hit.author, selftext |-> selftext,
      comments |-> comments, load |-> load ]

NoSearch == [ hits |-> << >>, raises |-> FALSE ]

\* Search (1, 1) yields hs and then raises or ends; search (1, 2) yields one
\* acceptable submission; the other searches find nothing.
SmallFeed(hs, r) ==
    [ s \in DOMAIN subreddits |-> [ q \in DOMAIN queries |->
        IF s = 1 /\ q = 1
        THEN [ hits |-> [ k \in DOMAIN hs |->
                            Submission(HitId(1, 1, k), hs[k], 1500, SmallForest,
                                       "loaded") ],
               raises |-> r ]
        ELSE IF s = 1 /\ q = 2
        THEN [ hits |-> << Submission(HitId(1, 2, 1), Hit(1, 20, "Alice"), 20,
                                      SmallForest, "loaded") >>,
               raises |-> FALSE ]
        ELSE NoSearch ] ]

HitSeqs == UNION { [ 1..n -> HitKinds ] : n \in 0..MaxHits }

SmallFeeds == { SmallFeed(hs, r) : hs \in HitSeqs, r \in BOOLEAN }

\* Every search yields BulkHits acceptable submissions with scattered scores,
\* each with more qualifying comments than the cap, every fifth with comments
\* that cannot be reached; the search of pair p (p = 0: none) raises after
\* half of its hits.
BulkFeed(p) ==
    [ s \in DOMAIN subreddits |-> [ q \in DOMAIN queries |->
        LET failing == (s - 1) * Len(queries) + q = p
            n == IF failing THEN BulkHits \div 2 ELSE BulkHits
        IN  [ hits |-> [ k \in 1..n |->
                 LET h == HitId(s, q, k) IN
                 Submission(h, Hit(k, MIN_POST_SCORE + ((h * 7) % 23), "Alice"),
                            200, BulkForest(h),
                            IF h % 5 = 0
                            THEN FailedLoads[((h \div MAX_REDDIT_SEARCH_LIMIT)
                                                % Len(FailedLoads)) + 1]
                            ELSE "loaded") ],
              raises |-> failing ] ] ]

BulkFeeds == { BulkFeed(p) : p \in 0..(Len(subreddits) * Len(queries)) }

\* A session on which every search raises before its first hit (the network
\* is down, or the service rejects the credentials at the first request).
DeadFeed ==
    [ s \in DOMAIN subreddits |-> [ q \in DOMAIN queries |->
        [ hits |-> << >>, raises |-> TRUE ] ] ]

Feeds == SmallFeeds \cup BulkFeeds \cup { DeadFeed }

Environs == { Credentials } \cup { Credentials \ {c} : c \in Credentials } \cup { {} }

\* post_data
post_data_whole_text(sub) ==
    [ type |-> "submission", id |-> << sub.id, 0 >>,
      text |-> sub.selftext, score |-> sub.score ]

post_data(sub) ==
    [ type |-> "submission", id |-> << sub.id, 0 >>,
      text |-> Min(sub.selftext, MAX_TEXT_LENGTH), score |-> sub.score ]

\* The checks of the hit filter, in the order the code makes them: the
\* sequence of attributes read and whether the hit is kept.
FilterChecks_score_first(sub, start_timestamp) ==
    IF sub.score < MIN_POST_SCORE
    THEN [ read |-> << "score" >>, keep |-> FALSE ]
    ELSE IF sub.created < start_timestamp
    THEN [ read |-> << "score", "created_utc" >>, keep |-> FALSE ]
    ELSE IF sub.author = NoAuthor \/ ContainsAutomod(Lower(sub.author))
    THEN [ read |-> << "score", "created_utc", "author" >>, keep |-> FALSE ]
    ELSE [ read |-> << "score", "created_utc", "author" >>, keep |-> TRUE ]

FilterChecks_skip_collected(sub, start_timestamp) ==
    IF sub.created < start_timestamp
    THEN [ read |-> << "created_utc" >>, keep |-> FALSE ]
    ELSE IF sub.score < MIN_POST_SCORE
    THEN [ read |-> << "created_utc", "score" >>, keep |-> FALSE ]
    ELSE IF sub.author = NoAuthor \/ ContainsAutomod(Lower(sub.author))
    THEN [ read |-> << "created_utc", "score", "author" >>, keep |-> FALSE ]
    ELSE [ read |-> << "created_utc", "score", "author" >>,
           keep |-> \A i \in DOMAIN all_posts : all_posts[i].id # << sub.id, 0 >> ]

FilterChecks(sub, start_timestamp) ==
    IF sub.created < start_timestamp
    THEN [ read |-> << "created_utc" >>, keep |-> FALSE ]
    ELSE IF sub.score < MIN_POST_SCORE
    THEN [ read |-> << "created_utc", "score" >>, keep |-> FALSE ]
    ELSE IF sub.author = NoAuthor \/ ContainsAutomod(Lower(sub.author))
    THEN [ read |-> << "created_utc", "score", "author" >>, keep |-> FALSE ]
    ELSE [ read |-> << "created_utc", "score", "author" >>, keep |-> TRUE ]

Take(w, n) == SubSeq(w, 1, Min(n, Len(w)))

\* list.sort(key=score, reverse=True): descending and stable.  The place of
\* w[i] is behind every higher score and every equal score that precedes it.
SortByScore(w) ==
    LET n == Len(w)
        place == [ i \in 1..n |->
                     1 + Cardinality({ j \in 1..n : w[j].score > w[i].score })
                       + Cardinality({ j \in 1..(i - 1) : w[j].score = w[i].score }) ]
    IN  [ p \in 1..n |-> w[CHOOSE i \in 1..n : place[i] = p] ]

\* submissions_to_process[:30]
top_submissions_all(sorted) == sorted

top_submissions_of(sorted) == Take(sorted, MAX_SUBMISSIONS_FOR_COMMENTS)

\* all_posts[:100]
truncate_none(sorted) == sorted

truncate(sorted) == Take(sorted, MAX_TOTAL_POSTS)

\* The while loop of _extract_quality_comments, run to its end.
RECURSIVE Bfs(_, _, _, _)
Bfs(sub, f, st, max) ==
    IF LoopContinues(st.queue, st.quality, max)
    THEN Bfs(sub, f, BfsStep(sub, f, st), max)
    ELSE st.quality

\* await _extract_quality_comments(submission, subreddit_name, max_comments)
ExtractQualityComments(sub, max) ==
    IF ExtractOutcome(sub.load) # "traverse" THEN << >>
    ELSE Bfs(sub.id, sub.comments,
             [ queue |-> Replies(sub.comments, 0), quality |-> << >>,
               entered |-> Replies(sub.comments, 0) ], max)

\* The search the two loops are at.
CurrentSearch == feed[sub_i][query_i]

\* raise ValueError(...) before the try block, else asyncpraw.Reddit(...) and
\* the initialisation of the lists; an exception of the constructor or of
\* datetime.strptime reaches the outer except with no session to close.
CollectStart ==
    /\ c_pc = "start"
    /\ IF AllCredentials(environ)
       THEN \/ /\ session' = "open"
               /\ c_pc' = "subreddit"
               /\ c_exc' = c_exc
            \/ /\ session' = session
               /\ c_pc' = "except"
               /\ c_exc' = "session_error"
       ELSE /\ session' = session
            /\ c_pc' = "raised"
            /\ c_exc' = "credentials_error"
    /\ UNCHANGED << server_vars, traverse_vars, feed, world_vars, sub_i, query_i,
                    hit_i, all_posts, submissions_to_process, top_submissions,
                    ex_i, searched, loaded, seen, checked, pool, teardown >>

\* Where an exception of await reddit.subreddit(...) is handled: the call is
\* outside the try of the query loop, so in the outer except.
on_subreddit_error_skip_forum == "search"

on_subreddit_error == "except"

\* for subreddit_name in subreddits: subreddit = await reddit.subreddit(...)
\* The await is outside the inner try: an exception ends the collection.
CollectSubreddit ==
    /\ c_pc = "subreddit"
    /\ sub_i <= Len(subreddits)
    /\ \/ c_pc' = "search" /\ query_i' = 1 /\ c_exc' = c_exc
       \/ /\ c_pc' = on_subreddit_error
          /\ query_i' = query_i
          /\ c_exc' = "subreddit_error"
    /\ UNCHANGED << server_vars, traverse_vars, feed, world_vars, sub_i,
                    hit_i, all_posts, submissions_to_process, top_submissions,
                    ex_i, session, searched, loaded, seen, checked, pool,
                    teardown >>

\* for query in queries: search_results = subreddit.search(query, ...)
CollectSearch ==
    /\ c_pc = "search"
    /\ IF query_i <= Len(queries)
       THEN /\ searched' = searched \cup { << sub_i, query_i >> }
            /\ hit_i' = 1
            /\ c_pc' = "iterate"
            /\ sub_i' = sub_i
       ELSE /\ sub_i' = sub_i + 1
            /\ c_pc' = "subreddit"
            /\ UNCHANGED << searched, hit_i >>
    /\ UNCHANGED << server_vars, traverse_vars, feed, world_vars, query_i,
                    all_posts, submissions_to_process, top_submissions,
                    ex_i, session, loaded, seen, checked, pool,
                    teardown, c_exc >>

\* async for submission in search_results: the three checks, then post_data
\* is appended to all_posts and the submission to submissions_to_process.
CollectHit ==
    /\ c_pc = "iterate"
    /\ hit_i <= Len(CurrentSearch.hits)
    /\ LET sub == CurrentSearch.hits[hit_i]
           f == FilterChecks(sub, 0)
       IN  /\ checked' = f.read
           /\ seen' = Append(seen, sub)
           /\ IF f.keep
              THEN /\ all_posts' = Append(all_posts, post_data(sub))
                   /\ submissions_to_process' = Append(submissions_to_process, sub)
              ELSE UNCHANGED << all_posts, submissions_to_process >>
    /\ hit_i' = hit_i + 1
    /\ UNCHANGED << server_vars, traverse_vars, feed, world_vars, c_pc, sub_i,
                    query_i, top_submissions, ex_i, session, searched, loaded,
                    pool,
                    teardown, c_exc >>

\* The search has no more hits: the next query.
CollectSearchEnds ==
    /\ c_pc = "iterate"
    /\ hit_i > Len(CurrentSearch.hits)
    /\ ~CurrentSearch.raises
    /\ query_i' = query_i + 1
    /\ c_pc' = "search"
    /\ UNCHANGED << server_vars, traverse_vars, feed, world_vars, sub_i, hit_i,
                    all_posts, submissions_to_process, top_submissions, ex_i,
                    session, searched, loaded, seen, checked, pool,
                    teardown, c_exc >>

\* except Exception as e: logger.warning(...); continue
on_search_error_abort == "except"

on_search_error == "search"

\* The search raises, at its start or between two hits.
CollectSearchRaises ==
    /\ c_pc = "iterate"
    /\ hit_i > Len(CurrentSearch.hits)
    /\ CurrentSearch.raises
    /\ query_i' = query_i + 1
    /\ c_pc' = on_search_error
    /\ UNCHANGED << server_vars, traverse_vars, feed, world_vars, sub_i, hit_i,
                    all_posts, submissions_to_process, top_submissions, ex_i,
                    session, searched, loaded, seen, checked, pool,
                    teardown, c_exc >>

\* submissions_to_process.sort(key=score, reverse=True);
\* top_submissions = submissions_to_process[:30]
CollectSort ==
    /\ c_pc = "subreddit"
    /\ sub_i > Len(subreddits)
    /\ submissions_to_process' = SortByScore(submissions_to_process)
    /\ top_submissions' = top_submissions_of(SortByScore(submissions_to_process))
    /\ ex_i' = 1
    /\ c_pc' = "extract"
    /\ UNCHANGED << server_vars, traverse_vars, feed, world_vars, sub_i, query_i,
                    hit_i, all_posts, session, searched, loaded, seen, checked,
                    pool,
                    teardown, c_exc >>

\* for submission, subreddit_name in top_submissions:
\*     all_posts.extend(await _extract_quality_comments(..., max_comments=5))
\* An exception of _extract_quality_comments would reach the outer except.
CollectExtract ==
    /\ c_pc = "extract"
    /\ ex_i <= Len(top_submissions)
    /\ LET sub == top_submissions[ex_i] IN
       /\ loaded' = loaded \cup { sub.id }
       /\ IF ExtractOutcome(sub.load) = "raise"
          THEN /\ c_pc' = "except"
               /\ c_exc' = "load_error"
               /\ UNCHANGED << all_posts, ex_i >>
          ELSE /\ all_posts' = all_posts \o
                     ExtractQualityComments(sub, MAX_COMMENTS_PER_SUBMISSION)
               /\ ex_i' = ex_i + 1
               /\ c_pc' = c_pc
               /\ c_exc' = c_exc
    /\ UNCHANGED << server_vars, traverse_vars, feed, world_vars, sub_i,
                    query_i, hit_i, submissions_to_process, top_submissions,
                    session, searched, seen, checked, pool, teardown >>

\* all_posts.sort(key=score, reverse=True); all_posts = all_posts[:100]
CollectMerge ==
    /\ c_pc = "extract"
    /\ ex_i > Len(top_submissions)
    /\ pool' = all_posts
    /\ all_posts' = truncate(SortByScore(all_posts))
    /\ c_pc' = "close"
    /\ UNCHANGED << server_vars, traverse_vars, feed, world_vars, sub_i, query_i,
                    hit_i, submissions_to_process, top_submissions, ex_i,
                    session, searched, loaded, seen, checked,
                    teardown, c_exc >>

\* await reddit.close(), then return all_posts (or [] when it is empty); an
\* exception of close() is caught by the outer except.
CollectClose ==
    /\ c_pc = "close"
    /\ \/ /\ c_pc' = "returned" /\ session' = "closed"
          /\ teardown' = Append(teardown, "closed")
          /\ c_exc' = c_exc
       \/ /\ c_pc' = "except" /\ session' = session
          /\ teardown' = Append(teardown, "raised")
          /\ c_exc' = "close_error"
    /\ UNCHANGED << server_vars, traverse_vars, feed, world_vars, sub_i, query_i,
                    hit_i, all_posts, submissions_to_process, top_submissions,
                    ex_i, searched, loaded, seen, checked, pool >>

\* try: await reddit.close() except: pass
on_teardown_error_raise == "raise"

on_teardown_error == "pass"

\* What await reddit.close() can do: with no session (reddit was never
\* bound) the statement can only raise.
CloseOutcomes(sess) == IF sess = "none" THEN {"raised"} ELSE {"closed", "raised"}

\* except Exception: try: await reddit.close() except: pass; raise
CollectExcept ==
    /\ c_pc = "except"
    /\ \E o \in CloseOutcomes(session) :
         /\ teardown' = Append(teardown, o)
         /\ session' = IF o = "closed" THEN "closed" ELSE session
         /\ c_exc' = IF o = "raised" /\ on_teardown_error = "raise"
                     THEN "teardown_error" ELSE c_exc
    /\ c_pc' = "raised"
    /\ UNCHANGED << server_vars, traverse_vars, feed, world_vars, sub_i, query_i,
                    hit_i, all_posts, submissions_to_process, top_submissions,
                    ex_i, searched, loaded, seen, checked, pool >>

\* No collection in progress: the locals of collect_reddit_data are unset.
CollectReset ==
    /\ c_pc = "idle"
    /\ sub_i = 1 /\ query_i = 1 /\ hit_i = 1 /\ ex_i = 1
    /\ all_posts = << >>
    /\ submissions_to_process = << >>
    /\ top_submissions = << >>
    /\ session = "none"
    /\ searched = {}
    /\ loaded = {}
    /\ seen = << >>
    /\ checked = << >>
    /\ pool = << >>
    /\ teardown = << >>
    /\ c_exc = "none"

CollectIdle ==
    /\ feed = [ s \in DOMAIN subreddits |-> [ q \in DOMAIN queries |-> NoSearch ] ]
    /\ CollectReset


(***************************************************************************)
(* run_analysis calling collect_reddit_data: the coroutine of the          *)
(* collector runs inside the task of the job that awaits it.               *)
(***************************************************************************)
\* raise ValueError("Reddit credentials not found in environment variables. ...")
CredentialsError ==
    [ type |-> "ValueError",
      msg |-> "Reddit credentials not found in environment variables. Required: REDDIT_CLIENT_ID, REDDIT_CLIENT_SECRET, REDDIT_USER_AGENT" ]

\* What the outer except of collect_reddit_data re-raises.
RedditApiError == [ type |-> "Exception", msg |-> "reddit api error" ]

\* The exception a collection that raised ends with.
CollectorException ==
    IF AllCredentials(environ) THEN RedditApiError ELSE CredentialsError

\* reddit_posts = await collect_reddit_data(ticker, name, date): the call
CallCollector(j) ==
    /\ pc[j] = "collect_reddit_data" /\ Running(j)
    /\ c_pc = "idle"
    /\ calls' = [ calls EXCEPT ![j] = Append(@, "collect_reddit_data") ]
    /\ pc' = [ pc EXCEPT ![j] = "await_reddit" ]
    /\ c_pc' = "start"
    /\ UNCHANGED << env, analysis_status, analysis_cache, active_connections,
                    now, ticks, next_job, cur, exc, result, reddit_posts,
                    sending, writes, ws_vars, inbox, dropped, evict_vars,
                    traverse_vars, world_vars, feed, sub_i, query_i, hit_i,
                    all_posts,
                    submissions_to_process, top_submissions, ex_i, session,
                    searched, loaded, seen, checked, pool,
                    teardown, c_exc >>

\* ... and its outcome: the list returned, or the exception, which the
\* try block of run_analysis catches.
CollectorDone(j) ==
    /\ pc[j] = "await_reddit" /\ cur = j
    /\ c_pc \in {"returned", "raised"}
    /\ IF c_pc = "returned"
       THEN /\ reddit_posts' = [ reddit_posts EXCEPT ![j] = Len(all_posts) ]
            /\ pc' = [ pc EXCEPT ![j] = reddit_branch(Len(all_posts)) ]
            /\ UNCHANGED << exc, result >>
       ELSE /\ Raise(j, CollectorException)
            /\ reddit_posts' = reddit_posts
    /\ UNCHANGED << store_vars, active_connections, now, ticks, next_job, cur,
                    sending, writes, calls, ws_vars, inbox, dropped,
                    evict_vars >>

(***************************************************************************)
(* src/api/core.py: collect_news_articles, and run_analysis calling it.    *)
(*                                                                         *)
(* A response of the news provider is what requests.get, raise_for_status  *)
(* and response.json() make of the request: a timeout or connection error, *)
(* an HTTP error status, a body that is not JSON, a JSON value that is not *)
(* a list, or a list of items.  An item is an article with headline and    *)
(* summary, an article lacking one of them, or a value that is no dict.    *)
(***************************************************************************)
NewsKey == "FINNHUB_API_KEY"

NewsResponse(kind, items) == [ kind |-> kind, items |-> items ]

\* No call of collect_news_articles yet / the call made no request.
NotCalled == NewsResponse("not_called", << >>)
NoRequest == NewsResponse("no_request", << >>)

NewsResponses ==
    { NewsResponse("timeout", << >>),
      NewsResponse("http_error", << >>),
      NewsResponse("bad_json", << >>),
      NewsResponse("not_list", << >>),
      NewsResponse("list", << >>),
      NewsResponse("list", << "article", "no_headline", "article", "no_summary" >>),
      NewsResponse("list", << "article", "not_a_dict", "article" >>) }

\* except requests.exceptions.RequestException / except Exception: return []
on_news_error_raise == "raise"

on_news_error == "return_empty"

\* The articles list built from the items: if not headline or not summary:
\* continue; item.get on a value that is no dict raises AttributeError.
NewsItemsRaise(items) == \E i \in DOMAIN items : items[i] = "not_a_dict"
NewsArticlesOf(items) == Cardinality({ i \in DOMAIN items : items[i] = "article" })

\* collect_news_articles(ticker, company_name, earnings_date) when the
\* provider answers r: whether it raises, and len() of the list it returns.
collect_news_articles(vars_set, r) ==
    LET failed == [ raised |-> on_news_error = "raise", articles |-> 0 ]
    IN  IF NewsKey \notin vars_set
        THEN [ raised |-> FALSE, articles |-> 0 ]
        ELSE CASE r.kind \in {"timeout", "http_error", "bad_json"} -> failed
               [] r.kind = "not_list" -> [ raised |-> FALSE, articles |-> 0 ]
               [] NewsItemsRaise(r.items) -> failed
               [] OTHER -> [ raised |-> FALSE,
                             articles |-> NewsArticlesOf(r.items) ]

\* An exception of the news collection, were it to reach run_analysis.
NewsError == [ type |-> "RequestException", msg |-> "news provider error" ]

\* news_articles = collect_news_articles(...); result["news_articles"] = ...
\* A blocking call: the job holds the event loop.
CollectNewsArticles(j) ==
    /\ pc[j] = "collect_news_articles" /\ Running(j)
    /\ calls' = [ calls EXCEPT ![j] = Append(@, "collect_news_articles") ]
    /\ \E r \in IF NewsKey \in environ THEN NewsResponses ELSE { NoRequest } :
         /\ news_fetch' = [ news_fetch EXCEPT ![j] = r ]
         /\ LET out == collect_news_articles(environ, r) IN
            IF out.raised
            THEN Raise(j, NewsError)
            ELSE /\ result' = [ result EXCEPT ![j].news_articles = out.articles ]
                 /\ pc' = [ pc EXCEPT ![j] = "u60" ]
                 /\ exc' = exc
    /\ UNCHANGED << env, analysis_status, analysis_cache, active_connections,
                    now, ticks, next_job, cur, reddit_posts, sending, writes,
                    ws_vars, inbox, dropped, evict_vars, traverse_vars,
                    environ, collect_vars >>

\* No job has called collect_news_articles.
NewsIdle == news_fetch = [ j \in JobIds |-> NotCalled ]

CoreIdle == TraverseIdle /\ CollectIdle /\ NewsIdle

(***************************************************************************)
(* Specification.                                                          *)
(***************************************************************************)
InitEnv(e) ==
    /\ env = e
    /\ analysis_status = [ j \in JobIds |-> NoRecord ]
    /\ analysis_cache = [ j \in JobIds |-> NoEntry ]
    /\ active_connections = [ j \in JobIds |-> NoListener ]
    /\ now = 0
    /\ ticks = 0
    /\ next_job = 1
    /\ cur = Idle
    /\ pc = [ j \in JobIds |-> "none" ]
    /\ exc = [ j \in JobIds |-> NoExc ]
    /\ result = [ j \in JobIds |-> InitialResult(j) ]
    /\ reddit_posts = [ j \in JobIds |-> -1 ]
    /\ sending = [ j \in JobIds |-> NoSend ]
    /\ ws_pc = [ l \in Listeners |-> "idle" ]
    /\ ws_job = [ l \in Listeners |-> 0 ]
    /\ ws_sending = [ l \in Listeners |-> NoEvent ]
    /\ inbox = [ l \in Listeners |-> << >> ]
    /\ writes = [ j \in JobIds |-> << >> ]
    /\ calls = [ j \in JobIds |-> << >> ]
    /\ dropped = {}
    /\ last_reg = [ j \in JobIds |-> NoListener ]
    /\ expired_seen = {}
    /\ swept = {}

JobStep(j) ==
    \/ TaskStart(j)
    \/ Progress(j)
    \/ SendDone(j)
    \/ Step1_validate_ticker(j)
    \/ Step2_get_earnings_metadata(j)
    \/ Step3_analyze_price_performance(j)
    \/ Step4_collect_news_articles(j)
    \/ Step5_collect_reddit_data(j)
    \/ RedditReturns(j)
    \/ NoRedditData(j)
    \/ MinimalReport(j)
    \/ Step6_analyze_reddit_with_llm(j)
    \/ Step7_generate_insight_report(j)
    \/ Complete(j)
    \/ SendResult(j)
    \/ Except(j)
    \/ SendError(j)
    \/ TaskEnd(j)

ListenerStep(l) ==
    \/ \E j \in JobIds : WsConnect(l, j)
    \/ WsAccepted(l)
    \/ WsReplayStatusDone(l)
    \/ WsReplayResultDone(l)
    \/ WsClientText(l)
    \/ WsPongDone(l)
    \/ WsClientClose(l)

Next ==
    \/ \E t \in Tickers : StartAnalysis(t)
    \/ \E j \in JobIds : GetResult(j)
    \/ \E j \in JobIds : JobStep(j)
    \/ \E l \in Listeners : ListenerStep(l)
    \/ Tick

\* One job with a listener over two clock advances, and two jobs with the
\* sweep between them.
Init ==
    /\ \E e \in {OneJobOneListener, TwoJobs} : InitEnv(e)
    /\ CoreIdle
    /\ environ = Credentials

Spec == Init /\ [][Next]_vars

\* Two listeners on one job.
InitPush ==
    /\ \E e \in {TwoListeners, OneJobClock} : InitEnv(e)
    /\ CoreIdle
    /\ environ = Credentials

SpecPush == InitPush /\ [][Next]_vars

\* The event loop runs every ready task: a background task that can take a
\* step (start, continue after a blocking call, resume after a send or after
\* the collector returned or raised) eventually takes it.
LiveSpec == Init /\ [][Next]_vars /\ \A j \in JobIds : WF_vars(JobStep(j))

\* _extract_quality_comments on every reply tree of at most MaxNodes nodes and
\* every max_comments up to MaxMaxComments.
InitTraverse ==
    /\ InitEnv(OneJobClock)
    /\ CollectIdle
    /\ NewsIdle
    /\ environ = Credentials
    /\ forest \in Forests(MaxNodes)
    /\ max_comments \in 0..MaxMaxComments
    /\ comment_queue = << >>
    /\ quality_comments = << >>
    /\ entered = << >>
    /\ t_pc = "load"

NextTraverse ==
    \/ TraverseLoad
    \/ TraverseStep
    \/ TraverseReturn

SpecTraverse == InitTraverse /\ [][NextTraverse]_vars

\* _extract_quality_comments on the reply trees that hold an unexpanded
\* placeholder.
InitUnexpanded ==
    /\ InitEnv(OneJobClock)
    /\ CollectIdle
    /\ NewsIdle
    /\ environ = Credentials
    /\ forest \in UnexpandedForests(MaxNodes)
    /\ max_comments \in 0..MaxMaxComments
    /\ comment_queue = << >>
    /\ quality_comments = << >>
    /\ entered = << >>
    /\ t_pc = "load"

SpecUnexpanded == InitUnexpanded /\ [][NextTraverse]_vars

\* The coroutine is awaited by its caller and makes no blocking wait in the
\* loop: while it can take a step it takes one.
LiveTraverse == InitTraverse /\ [][NextTraverse]_vars /\ WF_vars(NextTraverse)

\* collect_reddit_data on every feed of Feeds, with and without credentials.
InitCollect ==
    /\ InitEnv(OneJobClock)
    /\ TraverseIdle
    /\ NewsIdle
    /\ feed \in Feeds
    /\ environ \in Environs
    /\ c_pc = "start"
    /\ sub_i = 1 /\ query_i = 1 /\ hit_i = 1 /\ ex_i = 1
    /\ all_posts = << >>
    /\ submissions_to_process = << >>
    /\ top_submissions = << >>
    /\ session = "none"
    /\ searched = {}
    /\ loaded = {}
    /\ seen = << >>
    /\ checked = << >>
    /\ pool = << >>
    /\ teardown = << >>
    /\ c_exc = "none"

NextCollect ==
    \/ CollectStart
    \/ CollectSubreddit
    \/ CollectSearch
    \/ CollectHit
    \/ CollectSearchEnds
    \/ CollectSearchRaises
    \/ CollectSort
    \/ CollectExtract
    \/ CollectMerge
    \/ CollectClose
    \/ CollectExcept

SpecCollect == InitCollect /\ [][NextCollect]_vars

\* A submission that matches several searches: the searches of the pairs ps
\* all yield it, and the first search raises after it when r holds.
RepeatedSubmission ==
    Submission(HitId(1, 1, 1), Hit(1, 50, "Alice"), 1500, SmallForest, "loaded")

RepeatedFeed(ps, r) ==
    [ s \in DOMAIN subreddits |-> [ q \in DOMAIN queries |->
        IF << s, q >> \in ps
        THEN [ hits |-> << RepeatedSubmission >>,
               raises |-> r /\ s = 1 /\ q = 1 ]
        ELSE NoSearch ] ]

RepeatedFeeds ==
    { RepeatedFeed(ps, r) :
        ps \in SUBSET ((DOMAIN subreddits) \X (DOMAIN queries)) \ { {} },
        r \in BOOLEAN }

\* collect_reddit_data when one submission matches several searches.
InitRepeated ==
    /\ InitEnv(OneJobClock)
    /\ TraverseIdle
    /\ NewsIdle
    /\ feed \in RepeatedFeeds
    /\ environ = Credentials
    /\ c_pc = "start"
    /\ sub_i = 1 /\ query_i = 1 /\ hit_i = 1 /\ ex_i = 1
    /\ all_posts = << >>
    /\ submissions_to_process = << >>
    /\ top_submissions = << >>
    /\ session = "none"
    /\ searched = {}
    /\ loaded = {}
    /\ seen = << >>
    /\ checked = << >>
    /\ pool = << >>
    /\ teardown = << >>
    /\ c_exc = "none"

SpecRepeated == InitRepeated /\ [][NextCollect]_vars

\* One job, no listener, a frozen clock.
OneJobAlone == [ jobs |-> 1, listeners |-> 0, ticks |-> 0 ]

\* The feeds of the job's collection: nothing found, and one search that
\* raises after an acceptable hit.
JobFeeds ==
    { [ s \in DOMAIN subreddits |-> [ q \in DOMAIN queries |-> NoSearch ] ],
      SmallFeed(<< Hit(1, 50, "Alice") >>, TRUE) }

\* The environments of the job: the discussion credentials of Environs, with
\* and without the key of the news provider.
JobEnvirons == { e \cup k : e \in Environs, k \in { {}, { NewsKey } } }

InitJob ==
    /\ InitEnv(OneJobAlone)
    /\ TraverseIdle
    /\ NewsIdle
    /\ environ \in JobEnvirons
    /\ feed \in JobFeeds
    /\ CollectReset

\* run_analysis with its calls of collect_news_articles and
\* collect_reddit_data spelled out.
NextJob ==
    \/ \E t \in Tickers : StartAnalysis(t)
    \/ \E j \in JobIds :
         \/ TaskStart(j)
         \/ Progress(j)
         \/ Step1_validate_ticker(j)
         \/ Step2_get_earnings_metadata(j)
         \/ Step3_analyze_price_performance(j)
         \/ CollectNewsArticles(j)
         \/ CallCollector(j)
         \/ CollectorDone(j)
         \/ NoRedditData(j)
         \/ MinimalReport(j)
         \/ Step6_analyze_reddit_with_llm(j)
         \/ Step7_generate_insight_report(j)
         \/ Complete(j)
         \/ SendResult(j)
         \/ Except(j)
         \/ SendError(j)
         \/ TaskEnd(j)
    \/ NextCollect

SpecJob == InitJob /\ [][NextJob]_vars

\* Two jobs and a listener of one of them, on a frozen clock; the client of
\* the listener sends no text, it connects, receives and closes.
InitPair ==
    /\ InitEnv(TwoJobsOneListener)
    /\ CoreIdle
    /\ environ = Credentials

SilentListenerStep(l) ==
    \/ \E j \in JobIds : WsConnect(l, j)
    \/ WsAccepted(l)
    \/ WsReplayStatusDone(l)
    \/ WsReplayResultDone(l)
    \/ WsClientClose(l)

NextPair ==
    \/ \E t \in Tickers : StartAnalysis(t)
    \/ \E j \in JobIds : JobStep(j)
    \/ \E l \in Listeners : SilentListenerStep(l)

SpecPair == InitPair /\ [][NextPair]_vars

\* One job and two listeners of it, on a frozen clock; the clients send no
\* text.
InitSupersede ==
    /\ InitEnv(TwoListeners)
    /\ CoreIdle
    /\ environ = Credentials

SpecSupersede == InitSupersede /\ [][NextPair]_vars

(***************************************************************************)
(* Properties.                                                             *)
(***************************************************************************)
Terminal == {"completed", "failed"}
Last(w) == IF w = << >> THEN "none" ELSE w[Len(w)]
Evicted == expired_seen \cup swept
Range(w) == { w[i] : i \in DOMAIN w }
ResultEvents(l) == { i \in DOMAIN inbox[l] : inbox[l][i].type = "result" }

\* C1: the statuses written for a job are pending, then processing one or
\* more times, then at most one of completed or failed, which is the last
\* write; the store holds the last write, and a finished run_analysis has
\* written a terminal status.
C1_StatusSequence ==
    \A j \in JobIds :
        LET w == writes[j] IN
        /\ w # << >> => w[1] = "pending"
        /\ \A i \in 2..Len(w) :
             \/ w[i] = "processing" /\ w[i - 1] \in {"pending", "processing"}
             \/ w[i] \in Terminal /\ w[i - 1] = "processing" /\ i = Len(w)
        /\ HasStatus(analysis_status, j) => analysis_status[j].status = Last(w)
        /\ pc[j] = "finished" => Last(w) \in Terminal

\* A job ran to completed through several processing writes while a listener
\* lost a delivery.
C1_Witness ==
    \E j \in JobIds :
        /\ pc[j] = "finished"
        /\ Last(writes[j]) = "completed"
        /\ Len(writes[j]) >= 8
        /\ \E l \in Listeners : ws_job[l] = j /\ inbox[l] # << >>
                                /\ active_connections[j] = NoListener

\* C2: once a step of run_analysis has raised, the handler runs before any
\* other task: the last status written is failed with a non-empty message,
\* the failure payload with a non-empty error string is the stored result,
\* and the status is never left at processing.
C2_FailureRecorded ==
    \A j \in JobIds :
        exc[j] # NoExc =>
            \/ pc[j] = "except" /\ cur = j
            \/ /\ pc[j] \in {"send_error", "done", "finished"}
               /\ Last(writes[j]) = "failed"
               /\ result[j].status = "failed"
               /\ ~IsEmptyStr(result[j].error)
               /\ j \notin Evicted =>
                    /\ HasStatus(analysis_status, j)
                    /\ analysis_status[j].status = "failed"
                    /\ ~IsEmptyStr(analysis_status[j].message)
                    /\ HasEntry(analysis_cache, j)
                    /\ analysis_cache[j].result = result[j]

\* An exception whose str() is empty was handled and its payload is stored.
C2_Witness ==
    \E j \in JobIds :
        /\ exc[j] # NoExc /\ exc[j].msg = ""
        /\ pc[j] = "finished"
        /\ HasEntry(analysis_cache, j)
        /\ analysis_status[j].status = "failed"

\* C3: every job accepted by start_analysis eventually has the status
\* completed or failed written, whatever the listeners do and whether or not
\* deliveries to them fail.
C3_EventuallyTerminal ==
    \A j \in JobIds : (pc[j] = "queued") ~> (Last(writes[j]) \in Terminal)

\* A job reached a terminal status although a delivery to its listener failed
\* (the listener is still connected but no longer registered).
C3_Witness ==
    \E j \in JobIds, l \in Listeners :
        /\ Last(writes[j]) \in Terminal
        /\ pc[j] = "finished"
        /\ ws_job[l] = j /\ ws_pc[l] = "loop"
        /\ active_connections[j] = NoListener

\* C4: when collect_reddit_data returned an empty list, neither LLM analysis
\* is invoked, nothing is raised, the job ends completed, and the stored
\* result has reddit_analysis null and the minimal insight report.
C4_NoDiscussionPath ==
    \A j \in JobIds :
        reddit_posts[j] = 0 =>
            /\ "analyze_reddit_with_llm" \notin Range(calls[j])
            /\ "generate_insight_report" \notin Range(calls[j])
            /\ exc[j] = NoExc
            /\ Last(writes[j]) # "failed"
            /\ pc[j] \in {"u90", "minimal_report", "complete", "send_result",
                          "done", "finished"}
            /\ pc[j] \in {"send_result", "done", "finished"} =>
                 /\ Last(writes[j]) = "completed"
                 /\ result[j].reddit_analysis = "null"
                 /\ result[j].insight_report = "minimal"
                 /\ j \notin Evicted =>
                      /\ HasEntry(analysis_cache, j)
                      /\ analysis_cache[j].result = result[j]

\* A job whose collector returned nothing has finished and its result is
\* cached.
C4_Witness ==
    \E j \in JobIds :
        /\ reddit_posts[j] = 0
        /\ pc[j] = "finished"
        /\ HasEntry(analysis_cache, j)
        /\ analysis_cache[j].result.insight_report = "minimal"

\* C5: a result query for an id without an envelope answers not-found; for an
\* id whose envelope is past expires_at it answers expired; and once a query
\* has answered expired the envelope and the status record are gone, so every
\* later query for that id answers not-found.
C5_ResultQuery ==
    \A j \in JobIds :
        /\ ~HasEntry(analysis_cache, j) =>
             get_result_response(analysis_cache, j, now) = NotFound
        /\ (HasEntry(analysis_cache, j) /\ analysis_cache[j].expires_at < now) =>
             get_result_response(analysis_cache, j, now) = Expired
        /\ j \in expired_seen =>
             /\ ~HasEntry(analysis_cache, j)
             /\ ~HasStatus(analysis_status, j)
             /\ get_result_response(analysis_cache, j, now) = NotFound

\* A result query has answered expired for a finished job.
C5_Witness ==
    \E j \in expired_seen :
        /\ pc[j] = "finished"
        /\ get_result_response(analysis_cache, j, now) = NotFound

\* C6: every step that issues a job id has swept the store first: each job
\* whose envelope had expires_at before the sweep time has lost both its
\* envelope and its status record, and the new job's status is pending.
C6_SweepOnSubmission ==
    [][ next_job' # next_job =>
          /\ \A j \in JobIds :
               ( HasEntry(analysis_cache, j)
                 /\ analysis_cache[j].expires_at < now ) =>
                   /\ ~HasEntry(analysis_cache', j)
                   /\ ~HasStatus(analysis_status', j)
          /\ analysis_status'[next_job].status = "pending" ]_vars

\* A submission swept an expired job.
C6_Witness ==
    \E j \in swept :
        /\ ~HasEntry(analysis_cache, j)
        /\ ~HasStatus(analysis_status, j)
        /\ next_job > j + 1

\* C7: an envelope is stored only for a terminal result; it expires 1 hour
\* after the store for a failed result and 24 hours after it for a completed
\* one, so the failure record expires strictly earlier.
C7_Expiry ==
    [][ \A j \in JobIds :
          ( analysis_cache'[j] # analysis_cache[j]
            /\ HasEntry(analysis_cache', j) ) =>
              LET e == analysis_cache'[j] IN
              /\ e.result.status \in Terminal
              /\ e.result.status = "failed" => e.expires_at = now + 1
              /\ e.result.status = "completed" => e.expires_at = now + 24
              /\ now + 1 < now + 24 ]_vars

\* Two jobs, one failed and one completed, hold envelopes with their expiries.
C7_Witness ==
    \E j, k \in JobIds :
        /\ HasEntry(analysis_cache, j) /\ HasEntry(analysis_cache, k)
        /\ analysis_cache[j].result.status = "failed"
        /\ analysis_cache[k].result.status = "completed"
        /\ analysis_cache[j].expires_at < analysis_cache[k].expires_at

\* C8: a listener is sent the job's terminal result exactly once, counting
\* the replay at registration and the publish by run_analysis: no listener
\* holds two result events.
C8_ResultExactlyOnce ==
    \A l \in Listeners : Cardinality(ResultEvents(l)) <= 1

\* C9: the listener registered for a job, if any, is the one that registered
\* last, and every event send_update starts to send goes to that listener.
C9_LastRegistrationWins ==
    /\ [](\A j \in JobIds : active_connections[j] \in {NoListener, last_reg[j]})
    /\ [][ \A j \in JobIds :
             ( sending[j] = NoSend /\ sending'[j] # NoSend ) =>
                 /\ sending'[j].to = last_reg[j]
                 /\ sending'[j].to = active_connections[j] ]_vars

\* Two listeners registered for one job; the later one is registered and got
\* a published event while the earlier one is still connected.
C9_Witness ==
    \E j \in JobIds, a, b \in Listeners :
        /\ a # b /\ ws_job[a] = j /\ ws_job[b] = j
        /\ IsOpen(a) /\ inbox[a] # << >>
        /\ last_reg[j] = b /\ active_connections[j] = b
        /\ \E i \in DOMAIN inbox[b] : inbox[b][i].via = "publish"

\* C10: an event published while no listener is registered reaches nobody,
\* then or later, and publishing it changes neither the registrations nor any
\* listener's events nor a pending send.
C10_NoRetention ==
    /\ [](\A l \in Listeners : \A i \in DOMAIN inbox[l] :
            inbox[l][i].via = "publish" => inbox[l][i] \notin dropped)
    /\ [](\A j \in JobIds : sending[j] # NoSend => sending[j].msg \notin dropped)
    /\ [][ dropped' # dropped =>
             /\ inbox' = inbox
             /\ active_connections' = active_connections
             /\ sending' = sending ]_vars

\* A processing status was dropped before the listener registered; the
\* listener got the replay first and a later published event after it.
C10_Witness ==
    \E l \in Listeners :
        /\ \E e \in dropped : /\ e.job = ws_job[l] /\ e.type = "status"
                              /\ e.data.status = "processing"
        /\ inbox[l] # << >>
        /\ inbox[l][1].via = "replay"
        /\ \E i \in DOMAIN inbox[l] : inbox[l][i].via = "publish"

\* C11: when the send_json a job is suspended in raises, the job's entry in
\* active_connections is removed, run_analysis resumes where it was with no
\* exception recorded and with status, result and cache as they were; a job
\* fails only with an exception of one of its collaborators, and a publish
\* starts a send only while a listener is registered.
C11_DeliveryFailure ==
    /\ [][ \A j \in JobIds :
             ( /\ sending[j] # NoSend /\ sending'[j] = NoSend
               /\ inbox'[sending[j].to] = inbox[sending[j].to] ) =>
                 /\ active_connections'[j] = NoListener
                 /\ cur' = j
                 /\ pc' = pc /\ exc' = exc /\ result' = result
                 /\ analysis_status' = analysis_status
                 /\ analysis_cache' = analysis_cache
                 /\ writes' = writes ]_vars
    /\ [][ \A j \in JobIds :
             ( sending[j] = NoSend /\ sending'[j] # NoSend ) =>
                 active_connections[j] # NoListener ]_vars
    /\ [](\A j \in JobIds :
            /\ exc[j] # NoExc => exc[j] \in RaisedByCollaborators
            /\ Last(writes[j]) = "completed" => exc[j] = NoExc
            /\ ( Last(writes[j]) = "completed" /\ HasEntry(analysis_cache, j) )
                   => analysis_cache[j].result.status = "completed")

\* A delivery to the job's listener failed while the job was processing (the
\* listener is connected but not registered and never got the terminal
\* events, which were published to nobody), and the job completed.
C11_Witness ==
    \E j \in JobIds, l \in Listeners :
        /\ ws_job[l] = j /\ ws_pc[l] = "loop" /\ last_reg[j] = l
        /\ active_connections[j] = NoListener
        /\ Last(writes[j]) = "completed"
        /\ HasEntry(analysis_cache, j)
        /\ ResultEvents(l) = {}
        /\ \E e \in dropped : e.job = j /\ e.type = "result"

\* C12: a step of websocket_endpoint (connect, accept, replay, pong, close)
\* leaves every job's status record, result envelope and run_analysis state
\* as they were, and every queued job still reaches a terminal status.
C12_ListenerFrame ==
    /\ [][ ws_pc' # ws_pc =>
             /\ analysis_status' = analysis_status
             /\ analysis_cache' = analysis_cache
             /\ pc' = pc /\ exc' = exc /\ result' = result
             /\ reddit_posts' = reddit_posts
             /\ writes' = writes /\ calls' = calls
             /\ cur' = cur ]_vars
    /\ \A j \in JobIds :
         [](pc[j] = "queued" => <>(pc[j] = "finished" /\ Last(writes[j]) \in Terminal))

\* A listener connected while the job was processing, received events and
\* closed its connection before the job ended; the job finished.
C12_Witness ==
    \E j \in JobIds, l \in Listeners :
        /\ ws_job[l] = j /\ ws_pc[l] = "closed"
        /\ inbox[l] # << >>
        /\ inbox[l][Len(inbox[l])].type = "status"
        /\ inbox[l][Len(inbox[l])].data.status = "processing"
        /\ pc[j] = "finished"
        /\ Last(writes[j]) \in Terminal

\* The node of the reply tree a returned comment was built from.
NodeOf(item) == forest.node[item.id[2]]

RECURSIVE Depth(_, _)
Depth(f, i) == IF f.parent[i] = 0 THEN 0 ELSE 1 + Depth(f, f.parent[i])

PosIn(w, x) == CHOOSE i \in DOMAIN w : w[i] = x

\* The comments of a tree that meet the quality bar.
Qualifying(f) ==
    { i \in 1..f.n : /\ ~f.node[i].more
                     /\ f.node[i].body # NoBody /\ f.node[i].body > 100
                     /\ f.node[i].score >= 5 }

\* C13: _extract_quality_comments never holds more than max_comments items,
\* and every item was built from a comment with a non-empty body longer than
\* 100 characters and a score of at least 5.
C13_CapAndQuality ==
    /\ Len(quality_comments) <= max_comments
    /\ \A k \in DOMAIN quality_comments :
         LET c == NodeOf(quality_comments[k]) IN
         /\ ~c.more
         /\ c.body # NoBody /\ c.body > 0 /\ c.body > 100
         /\ c.score >= 5
         /\ quality_comments[k].score = c.score

\* The traversal returned max_comments >= 1 items with comments still queued,
\* out of a tree that also holds a disqualified comment.
C13_Witness ==
    /\ t_pc = "returned"
    /\ max_comments >= 1
    /\ Len(quality_comments) = max_comments
    /\ comment_queue # << >>
    /\ \E i \in 1..forest.n : ~forest.node[i].more /\ i \notin Qualifying(forest)

\* C14: for a loaded tree and max_comments >= 1 the traversal returns
\* min(max_comments, Q) distinct comments, Q being the number of qualifying
\* comments of the tree, whatever the quality of their ancestors.
C14_ReturnsMinOfCapAndQualifying ==
    ( t_pc = "returned" /\ max_comments >= 1 ) =>
        /\ Len(quality_comments) =
             Min(max_comments, Cardinality(Qualifying(forest)))
        /\ \A a, b \in DOMAIN quality_comments :
             quality_comments[a].id = quality_comments[b].id => a = b
        /\ \A a \in DOMAIN quality_comments :
             quality_comments[a].id[2] \in Qualifying(forest)

\* The only qualifying comment (score 12, 150 characters) is at depth 2 under
\* a top-level comment and a reply that both score below 5: it is returned,
\* alone.
C14_Witness ==
    /\ t_pc = "returned"
    /\ max_comments >= 1
    /\ \E i \in 1..forest.n :
         /\ Qualifying(forest) = {i}
         /\ forest.node[i] = Comment(12, 150)
         /\ Depth(forest, i) = 2
         /\ forest.node[forest.parent[i]].score < 5
         /\ \A r \in 1..forest.n :
              forest.parent[r] = 0 => ~forest.node[r].more /\ forest.node[r].score < 5
         /\ Len(quality_comments) = 1
         /\ quality_comments[1].id = << TheSubmission, i >>

\* C15: the returned comments are in breadth-first order: depths never
\* decrease along the list, and comments of equal depth are in the order in
\* which they entered the queue.
C15_BreadthFirstOrder ==
    \A a, b \in DOMAIN quality_comments :
        a < b =>
            LET x == quality_comments[a].id[2]
                y == quality_comments[b].id[2]
            IN  /\ Depth(forest, x) <= Depth(forest, y)
                /\ Depth(forest, x) = Depth(forest, y) =>
                     PosIn(entered, x) < PosIn(entered, y)

\* Two top-level comments were returned although a qualifying reply of the
\* first sits between them in the tree.
C15_Witness ==
    /\ t_pc = "returned"
    /\ Len(quality_comments) = 2
    /\ \E x, y, z \in 1..forest.n :
         /\ x < z /\ z < y
         /\ forest.parent[x] = 0 /\ forest.parent[y] = 0 /\ forest.parent[z] = x
         /\ z \in Qualifying(forest)
         /\ quality_comments[1].id[2] = x
         /\ quality_comments[2].id[2] = y

\* The (subreddit, query) pairs of collect_reddit_data.
Pairs == { << i, q >> : i \in DOMAIN subreddits, q \in DOMAIN queries }

\* Everything collected: all_posts as it was before the final sort and cut.
Collected ==
    IF sub_i > Len(subreddits) /\ c_pc \notin {"subreddit", "extract"}
    THEN pool ELSE all_posts

Ids(w) == { w[i].id : i \in DOMAIN w }
OfType(w, t) == { i \in DOMAIN w : w[i].type = t }
CommentsOf(w, h) == { i \in DOMAIN w : w[i].type = "comment" /\ w[i].id[1] = h }

\* The submissions the searches produced that pass the three checks.
Acceptable(sub) ==
    /\ sub.created >= 0
    /\ sub.score >= 10
    /\ sub.author # NoAuthor
    /\ sub.author \notin {"AutoModerator"}

\* C16: what collect_reddit_data returns has at most 100 items, is sorted by
\* score in non-increasing order, and is a highest-scoring selection of the
\* concatenation of the accepted submissions and the extracted comments: it
\* holds min(100, size) distinct items of it and no item left out scores
\* higher than an item returned.
C16_SortedTop100 ==
    c_pc \in {"close", "returned"} =>
        /\ Len(all_posts) <= 100
        /\ \A i \in 1..(Len(all_posts) - 1) :
             all_posts[i].score >= all_posts[i + 1].score
        /\ Len(all_posts) = Min(100, Len(pool))
        /\ \A i \in DOMAIN all_posts : \E k \in DOMAIN pool : pool[k] = all_posts[i]
        /\ \A i, k \in DOMAIN all_posts :
             all_posts[i].id = all_posts[k].id => i = k
        /\ \A k \in DOMAIN pool :
             pool[k].id \notin Ids(all_posts) =>
                 \A i \in DOMAIN all_posts : pool[k].score <= all_posts[i].score
        /\ \A k \in DOMAIN pool :
             IF k <= Len(submissions_to_process)
             THEN pool[k].type = "submission"
             ELSE pool[k].type = "comment"

\* More than 100 items were collected and 100 of them, submissions and
\* comments, were returned.
C16_Witness ==
    /\ c_pc = "returned"
    /\ Len(pool) > 100
    /\ Len(all_posts) = 100
    /\ OfType(all_posts, "submission") # {}
    /\ OfType(all_posts, "comment") # {}
    /\ \E i \in DOMAIN all_posts : all_posts[i].score > all_posts[Len(all_posts)].score

\* C17: at most 30 submissions are given to the comment traversal, none of
\* them outscored by 30 accepted submissions; a submission contributes at
\* most 5 comments, at most 150 comments are collected, and a submission that
\* was not traversed contributes none.
C17_TopThirtyOnly ==
    /\ Cardinality(loaded) <= 30
    /\ Cardinality(OfType(Collected, "comment")) <= 150
    /\ \A k \in DOMAIN submissions_to_process :
         LET sub == submissions_to_process[k]
             above == { i \in DOMAIN submissions_to_process :
                          submissions_to_process[i].score > sub.score }
         IN  /\ Cardinality(CommentsOf(Collected, sub.id)) <= 5
             /\ sub.id \notin loaded => CommentsOf(Collected, sub.id) = {}
             /\ Cardinality(above) >= 30 => sub.id \notin loaded
    /\ \A i \in OfType(Collected, "comment") : Collected[i].id[1] \in loaded

\* More than 30 submissions were accepted: 30 were traversed, one of them
\* gave 5 comments, and an accepted submission was left out.
C17_Witness ==
    /\ c_pc = "returned"
    /\ Len(submissions_to_process) > 30
    /\ Cardinality(loaded) = 30
    /\ \E k \in DOMAIN submissions_to_process :
         Cardinality(CommentsOf(pool, submissions_to_process[k].id)) = 5
    /\ \E k \in DOMAIN submissions_to_process :
         /\ submissions_to_process[k].id \notin loaded
         /\ submissions_to_process[k].load = "loaded"

\* C18: a hit is appended to all_posts and to submissions_to_process exactly
\* when it is not older than the cutoff, scores at least 10 and has an author
\* whose name does not contain automod; the filter reads creation time, then
\* score, then author, and stops at the first check that fails.
C18_HitFilter ==
    /\ \A k \in DOMAIN seen :
         /\ Acceptable(seen[k]) <=> << seen[k].id, 0 >> \in Ids(Collected)
         /\ Acceptable(seen[k]) <=>
               \E i \in DOMAIN submissions_to_process :
                   submissions_to_process[i].id = seen[k].id
    /\ Cardinality(OfType(Collected, "submission")) = Len(submissions_to_process)
    /\ seen # << >> =>
         LET sub == seen[Len(seen)] IN
         checked =
             IF sub.created < 0 THEN << "created_utc" >>
             ELSE IF sub.score < 10 THEN << "created_utc", "score" >>
             ELSE << "created_utc", "score", "author" >>

\* An accepted hit at both boundaries was followed by a hit that fails every
\* check, discarded on its creation time alone.
C18_Witness ==
    /\ c_pc = "iterate"
    /\ Len(seen) = 2
    /\ seen[1].created = 0 /\ seen[1].score = 10
    /\ seen[2].created < 0 /\ seen[2].score < 10 /\ seen[2].author = NoAuthor
    /\ Len(all_posts) = 1 /\ all_posts[1].id = << seen[1].id, 0 >>
    /\ Len(submissions_to_process) = 1
    /\ checked = << "created_utc" >>

\* C19: when a search raises, the loop goes on with the next query and the
\* lists keep what they hold; a collection that got past the searches has
\* searched every pair and kept every acceptable hit the searches produced.
C19_SearchFailureIsLocal ==
    /\ [][ ( /\ c_pc = "iterate" /\ c_pc' # "iterate"
             /\ CurrentSearch.raises ) =>
               /\ c_pc' = "search"
               /\ query_i' = query_i + 1 /\ sub_i' = sub_i
               /\ all_posts' = all_posts
               /\ submissions_to_process' = submissions_to_process ]_vars
    /\ [](c_pc \in {"extract", "close", "returned"} =>
            /\ searched = Pairs
            /\ \A pr \in Pairs :
                 LET hits == feed[pr[1]][pr[2]].hits IN
                 \A k \in DOMAIN hits :
                     Acceptable(hits[k]) =>
                         /\ << hits[k].id, 0 >> \in Ids(Collected)
                         /\ \E i \in DOMAIN submissions_to_process :
                              submissions_to_process[i].id = hits[k].id)

\* The first search raised after an acceptable hit; the collection went on,
\* searched the other pairs and returned that hit and a later one.
C19_Witness ==
    /\ c_pc = "returned"
    /\ feed[1][1].raises
    /\ feed[1][1].hits # << >>
    /\ Acceptable(feed[1][1].hits[Len(feed[1][1].hits)])
    /\ searched = Pairs
    /\ << HitId(1, 1, Len(feed[1][1].hits)), 0 >> \in Ids(all_posts)
    /\ << HitId(1, 2, 1), 0 >> \in Ids(all_posts)

\* C20: with a credential variable missing, collect_reddit_data creates no
\* session, starts no search and collects nothing, and the job that called
\* it never takes the no-discussion path: it records the credential error
\* and ends failed.
C20_MissingCredentials ==
    ~(Credentials \subseteq environ) =>
        /\ session = "none" /\ searched = {} /\ seen = << >>
        /\ all_posts = << >> /\ submissions_to_process = << >>
        /\ c_pc \in {"idle", "start", "raised"}
        /\ \A j \in JobIds :
             /\ reddit_posts[j] = -1
             /\ pc[j] \notin {"u90", "minimal_report", "u75",
                              "analyze_reddit_with_llm", "u85",
                              "generate_insight_report", "complete",
                              "send_result"}
             /\ Last(writes[j]) # "completed"
             /\ ( "collect_reddit_data" \in Range(calls[j]) /\ c_pc = "raised"
                  /\ pc[j] # "await_reddit" ) =>
                    exc[j].type = "ValueError"
             /\ pc[j] \in {"done", "finished"} =>
                    /\ Last(writes[j]) = "failed"
                    /\ analysis_cache[j].result.status = "failed"
                    /\ ~IsEmptyStr(analysis_cache[j].result.error)

\* Two of the three credentials are set; the job called the collector, which
\* raised at once, and the job finished failed.
C20_Witness ==
    \E j \in JobIds :
        /\ Cardinality(Credentials \cap environ) = 2
        /\ c_pc = "raised" /\ session = "none"
        /\ Last(calls[j]) = "collect_reddit_data"
        /\ pc[j] = "finished"
        /\ Last(writes[j]) = "failed"
        /\ exc[j] = CredentialsError

\* C21: collect_reddit_data returns an empty list only when the session was
\* established, the searches ran and nothing survived the filters; a
\* collection without credentials, or one on which every search failed, ends
\* raised and never returns an empty list.
C21_EmptyOnlyWhenNothingSurvived ==
    LET every_search_failed == \A p \in Pairs : feed[p[1]][p[2]].raises
    IN  /\ (c_pc = "returned" /\ all_posts = << >>) =>
               /\ session # "none"
               /\ searched = Pairs
               /\ ~every_search_failed
               /\ pool = << >>
        /\ (c_pc \in {"returned", "raised"}
              /\ (~(Credentials \subseteq environ) \/ every_search_failed)) =>
               c_pc = "raised"

\* C22: when the comment tree of a submission cannot be reached (no comments
\* attribute, load raises, tree still unloaded, replace_more raises), its
\* extraction adds nothing and raises nothing: the collection keeps every
\* item it holds and goes on with the next submission.
C22_LoadFailureIsEmpty ==
    [][ ( /\ c_pc = "extract" /\ ex_i <= Len(top_submissions)
          /\ top_submissions[ex_i].load \in Range(FailedLoads) ) =>
        ( /\ all_posts' = all_posts
          /\ c_pc' = "extract"
          /\ ex_i' = ex_i + 1
          /\ loaded' = loaded \cup { top_submissions[ex_i].id } ) ]_vars

\* The collection met each of the four failures, holds the submissions found
\* and went on to collect comments of a submission behind the failing ones.
C22_Witness ==
    /\ c_pc = "close"
    /\ \A k \in Range(FailedLoads) :
         \E i \in DOMAIN top_submissions : top_submissions[i].load = k
    /\ \E i, k \in DOMAIN top_submissions :
         /\ i < k
         /\ top_submissions[i].load \in Range(FailedLoads)
         /\ CommentsOf(pool, top_submissions[i].id) = {}
         /\ CommentsOf(pool, top_submissions[k].id) # {}
    /\ Cardinality(OfType(pool, "submission")) = Len(submissions_to_process)

StepOrder ==
    << "validate_ticker", "get_earnings_metadata", "analyze_price_performance",
       "collect_news_articles", "collect_reddit_data",
       "analyze_reddit_with_llm", "generate_insight_report" >>

IsPrefix(a, b) == Len(a) <= Len(b) /\ \A i \in DOMAIN a : a[i] = b[i]

\* What run_analysis holds of the steps before step k when they returned.
EarlierStepsReturned(j, k) ==
    /\ exc[j] = NoExc
    /\ k > 1 => result[j].company_info
    /\ k > 2 => result[j].earnings_metadata
    /\ k > 3 => result[j].price_performance
    /\ k > 4 => result[j].news_articles >= 0
    /\ k > 5 => reddit_posts[j] > 0
    /\ k > 6 => result[j].reddit_analysis = "obj"

\* C23: the collaborators of a job are invoked in the fixed order validate
\* ticker, earnings metadata, price performance, news, discussion collection,
\* the two analyses; a step is invoked only when every earlier step has
\* returned, and after a step has raised no further collaborator is invoked.
C23_FixedStepOrder ==
    /\ [](\A j \in JobIds : IsPrefix(calls[j], StepOrder))
    /\ [][ \A j \in JobIds :
             /\ calls'[j] # calls[j] =>
                  /\ calls'[j] = Append(calls[j], StepOrder[Len(calls[j]) + 1])
                  /\ EarlierStepsReturned(j, Len(calls[j]) + 1)
             /\ exc[j] # NoExc => calls'[j] = calls[j] ]_vars

\* One job went through all seven steps and completed; another failed in the
\* price analysis, its third and last step.
C23_Witness ==
    \E j, k \in JobIds :
        /\ pc[j] = "finished" /\ Last(writes[j]) = "completed"
        /\ calls[j] = StepOrder
        /\ pc[k] = "finished" /\ Last(writes[k]) = "failed"
        /\ calls[k] = SubSeq(StepOrder, 1, 3)

\* The news collection of a job met a missing key or a failure.
NewsFailed(j) ==
    \/ news_fetch[j] = NoRequest
    \/ news_fetch[j].kind \in {"timeout", "http_error", "bad_json", "not_list"}
    \/ \E i \in DOMAIN news_fetch[j].items : news_fetch[j].items[i] = "not_a_dict"

JobUntouched(k) ==
    /\ analysis_status'[k] = analysis_status[k]
    /\ analysis_cache'[k] = analysis_cache[k]
    /\ active_connections'[k] = active_connections[k]

\* The final result of job j as its own run determines it.
OwnOutcome(j) ==
    IF exc[j] # NoExc THEN FailedResult(j, error_msg(exc[j]))
    ELSE [ result[j] EXCEPT !.status = "completed" ]

\* C25: a step of run_analysis for job j (its update_status calls included)
\* and a step of a listener of job j leave the status record, the envelope
\* and the registration of every other job unchanged; the status and result
\* a finished job leaves in the store are those its own run determines.
C25_JobIsolation ==
    /\ [][ \A j \in JobIds :
             /\ JobStep(j) => \A k \in JobIds \ {j} : JobUntouched(k)
             /\ \A l \in Listeners :
                  (SilentListenerStep(l) /\ ws_job'[l] = j) =>
                      \A k \in JobIds \ {j} : JobUntouched(k) ]_vars
    /\ [](\A j \in JobIds :
            pc[j] = "finished" =>
              /\ analysis_cache[j].result = OwnOutcome(j)
              /\ analysis_status[j].job_id = j
              /\ analysis_status[j].status = OwnOutcome(j).status)

\* Both jobs ran interleaved, one with a listener that received events, and
\* they ended differently.
C25_Witness ==
    \E j, k \in JobIds, l \in Listeners :
        /\ pc[j] = "finished" /\ pc[k] = "finished"
        /\ analysis_status[j].status = "completed"
        /\ analysis_status[k].status = "failed"
        /\ ws_job[l] = j /\ Len(inbox[l]) >= 2
        /\ \E i \in DOMAIN inbox[l] : inbox[l][i].via = "publish"

\* The positions of run_analysis inside the upstream calls of steps 1-4.
UpstreamCalls ==
    { "validate_ticker", "get_earnings_metadata", "analyze_price_performance",
      "collect_news_articles" }

\* C26: while a job is inside the upstream call of one of the steps 1-4, the
\* other tasks can be scheduled: a queued job can start and a result request
\* can be served.
C26_UpstreamCallsSuspend ==
    \A j \in JobIds :
        (pc[j] \in UpstreamCalls /\ Running(j)) =>
            /\ \A k \in JobIds \ {j} : pc[k] = "queued" => ENABLED TaskStart(k)
            /\ ENABLED GetResult(j)

\* The status record of job j is removed by the step.
StatusRemoved(j) ==
    analysis_status[j] # NoRecord /\ analysis_status'[j] = NoRecord

\* C27 as stated: a status record is removed only by the sweep of
\* cleanup_expired_cache.
C27_OnlySweepDeletes ==
    [][ \A j \in JobIds : StatusRemoved(j) => j \in swept' \ swept ]_vars

\* C27 amended: a job has its status record from submission on, and the
\* record is removed only together with the job's expired result envelope,
\* by the sweep of cleanup_expired_cache or by the expiry check of
\* get_result.
C27_OnlyExpiryDeletes ==
    /\ [](\A j \in JobIds :
            (j < next_job /\ j \notin Evicted) => HasStatus(analysis_status, j))
    /\ [][ \A j \in JobIds :
             StatusRemoved(j) =>
                /\ j \in (swept' \ swept) \cup (expired_seen' \ expired_seen)
                /\ HasEntry(analysis_cache, j)
                /\ IsExpired(analysis_cache[j], now)
                /\ ~HasEntry(analysis_cache', j) ]_vars

\* One job lost its record to the sweep of a later submission, the other to
\* a result query after its expiry.
C27_Witness ==
    \E j, k \in JobIds :
        /\ j \in swept /\ k \in expired_seen /\ j # k
        /\ ~HasStatus(analysis_status, j) /\ ~HasStatus(analysis_status, k)
        /\ Last(writes[j]) \in Terminal /\ Last(writes[k]) \in Terminal

\* C28: between the steps of the tasks, a job has a result envelope exactly
\* when its status record says completed or failed, and the status inside the
\* envelope's result is the status of the record.
C28_EnvelopeIffTerminal ==
    \A j \in JobIds :
        /\ HasEntry(analysis_cache, j) <=>
              ( HasStatus(analysis_status, j)
                /\ analysis_status[j].status \in Terminal )
        /\ HasEntry(analysis_cache, j) =>
              analysis_cache[j].result.status = analysis_status[j].status

\* A failed job holds its envelope while another job is still processing and
\* has none.
C28_Witness ==
    \E j, k \in JobIds :
        /\ HasEntry(analysis_cache, j)
        /\ analysis_status[j].status = "failed"
        /\ analysis_cache[j].result.status = "failed"
        /\ HasStatus(analysis_status, k)
        /\ analysis_status[k].status = "processing"
        /\ ~HasEntry(analysis_cache, k)

Statuses == {"pending", "processing", "completed", "failed"}

\* C29: from the return of start_analysis until the job is evicted, a status
\* query for its id answers with a status, pending or a later one; a query
\* for an id that was never issued or whose record was evicted answers
\* not found.
C29_StatusQuery ==
    \A j \in JobIds :
        LET answer == get_status_response(analysis_status, j) IN
        /\ (j < next_job /\ j \notin Evicted) =>
              /\ answer \in Statuses
              /\ answer = Last(writes[j])
        /\ (j >= next_job \/ j \in Evicted) => answer = "Job not found"

\* A job just submitted answers pending, a job evicted answers not found, and
\* no further id was issued.
C29_Witness ==
    \E j, k \in JobIds :
        /\ get_status_response(analysis_status, j) = "pending"
        /\ pc[j] = "queued"
        /\ k \in Evicted
        /\ get_status_response(analysis_status, k) = "Job not found"

\* C30: every item collect_reddit_data holds or returns, submission or
\* comment, has a text of at most 1000 characters.
C30_TextWithinBound ==
    /\ \A i \in DOMAIN all_posts : all_posts[i].text <= MAX_TEXT_LENGTH
    /\ \A i \in DOMAIN pool : pool[i].text <= MAX_TEXT_LENGTH

\* The list returned holds a submission and a comment whose texts were longer
\* and were cut to the bound.
C30_Witness ==
    /\ c_pc = "returned"
    /\ \E i, k \in DOMAIN all_posts :
         /\ all_posts[i].type = "submission"
         /\ all_posts[i].text = MAX_TEXT_LENGTH
         /\ \E h \in DOMAIN seen :
              /\ seen[h].id = all_posts[i].id[1]
              /\ seen[h].selftext > MAX_TEXT_LENGTH
         /\ all_posts[k].type = "comment"
         /\ all_posts[k].text = MAX_TEXT_LENGTH
         /\ \E h \in DOMAIN seen :
              /\ seen[h].id = all_posts[k].id[1]
              /\ seen[h].comments.node[all_posts[k].id[2]].body > MAX_TEXT_LENGTH

\* The events send_update delivered to listener l, in order.
PublishedTo(l) == SelectSeq(inbox[l], LAMBDA e : e.via = "publish")

\* Listener l was registered when run_analysis made its first update_status
\* call (write 2; write 1 is the pending record of start_analysis).
HeardFromStart(l) ==
    \E i \in DOMAIN inbox[l] :
        /\ inbox[l][i].via = "publish" /\ inbox[l][i].type = "status"
        /\ inbox[l][i].data.seq = 2

\* C31: update_status writes the job's record before it emits the status
\* event: an emitted status event carries the record the store holds at that
\* moment.  The status events a listener receives from send_update are in the
\* order of the writes, and a listener registered from the first update of
\* the run receives every write of the run in turn, the result event right
\* after the completed status event and the error event right after the
\* failed one.
C31_StatusThenTerminalEvent ==
    /\ [](\A l \in Listeners :
            LET p == PublishedTo(l) IN
            /\ \A i \in DOMAIN p :
                 p[i].type = "status" =>
                     /\ p[i].job = ws_job[l]
                     /\ p[i].data.status = writes[p[i].job][p[i].data.seq]
            /\ \A i, k \in DOMAIN p :
                 ( i < k /\ p[i].type = "status" /\ p[k].type = "status" ) =>
                     p[i].data.seq < p[k].data.seq
            /\ HeardFromStart(l) =>
                 \A i \in DOMAIN p :
                    /\ p[i].type = "status" => p[i].data.seq = i + 1
                    /\ p[i].type = "result" =>
                         /\ i > 1 /\ p[i - 1].type = "status"
                         /\ p[i - 1].data.status = "completed"
                         /\ p[i - 1].data.seq = Len(writes[ws_job[l]])
                    /\ p[i].type = "error" =>
                         /\ i > 1 /\ p[i - 1].type = "status"
                         /\ p[i - 1].data.status = "failed"
                         /\ p[i - 1].data.seq = Len(writes[ws_job[l]]))
    /\ [][ \A j \in JobIds :
             ( sending[j] = NoSend /\ sending'[j] # NoSend
               /\ sending'[j].msg.type = "status" ) =>
                 sending'[j].msg.data = analysis_status'[j] ]_vars

\* A listener registered before the run began received every status of a
\* completed run and then the result.
C31_Witness ==
    \E l \in Listeners :
        LET p == PublishedTo(l) IN
        /\ HeardFromStart(l)
        /\ pc[ws_job[l]] = "finished"
        /\ Len(p) = Len(writes[ws_job[l]])
        /\ p[Len(p)].type = "result"
        /\ p[Len(p) - 1].data.status = "completed"

\* The nodes popped from comment_queue so far, in order: the queue is served
\* from its front, so they are the nodes that entered and are no longer in it.
Popped == SubSeq(entered, 1, Len(entered) - Len(comment_queue))

\* C32: _extract_quality_comments ends on every reply tree; no node enters
\* the queue or is popped from it twice; once len(quality_comments) has
\* reached max_comments no further node is popped, and with max_comments = 0
\* the result is empty and no comment was examined.
C32_TerminatesAtCap ==
    /\ <>(t_pc \notin {"load", "loop"})
    /\ [](/\ \A i, k \in DOMAIN entered : i # k => entered[i] # entered[k]
          /\ Len(comment_queue) <= Len(entered)
          /\ comment_queue = SubSeq(entered, Len(Popped) + 1, Len(entered))
          /\ Len(Popped) <= forest.n
          /\ max_comments = 0 => Popped = << >> /\ quality_comments = << >>)
    /\ [][ ( t_pc = "loop" /\ Len(quality_comments) >= max_comments ) =>
             /\ comment_queue' = comment_queue
             /\ quality_comments' = quality_comments ]_vars

\* The traversal returned at the cap with comments still queued, after it
\* had popped a node that did not qualify.
C32_Witness ==
    /\ t_pc = "returned"
    /\ max_comments > 0
    /\ Len(quality_comments) = max_comments
    /\ comment_queue # << >>
    /\ Len(Popped) > max_comments

\* C33: a MoreComments placeholder popped from the queue is dropped: the
\* step that pops it changes comment_queue only by removing it and leaves
\* quality_comments alone; no returned item is built from a placeholder and
\* nothing under a placeholder ever enters the queue; and the traversal goes
\* on behind it, returning short of max_comments only with an empty queue.
C33_PlaceholderDiscarded ==
    /\ [](/\ \A k \in DOMAIN quality_comments : ~NodeOf(quality_comments[k]).more
          /\ \A i \in DOMAIN entered :
               forest.parent[entered[i]] # 0 =>
                   ~forest.node[forest.parent[entered[i]]].more
          /\ ( t_pc = "returned" /\ Len(quality_comments) < max_comments ) =>
                 comment_queue = << >>)
    /\ [][ ( /\ t_pc = "loop"
             /\ LoopContinues(comment_queue, quality_comments, max_comments)
             /\ forest.node[Head(comment_queue)].more ) =>
               /\ comment_queue' = Tail(comment_queue)
               /\ quality_comments' = quality_comments
               /\ entered' = entered ]_vars

\* A placeholder with a qualifying comment under it was popped ahead of a
\* qualifying comment, which was returned; the comment under the placeholder
\* was not.
C33_Witness ==
    /\ t_pc = "returned"
    /\ \E m, c, u \in 1..forest.n :
         /\ forest.node[m].more /\ forest.parent[u] = m
         /\ u \in Qualifying(forest) /\ c \in Qualifying(forest)
         /\ \E a, b \in DOMAIN Popped : a < b /\ Popped[a] = m /\ Popped[b] = c
         /\ \E k \in DOMAIN quality_comments : quality_comments[k].id[2] = c
         /\ \A i \in DOMAIN entered : entered[i] # u
         /\ Len(quality_comments) < max_comments

\* The exceptions that reach the outer except of collect_reddit_data.
CollectionErrors == {"session_error", "subreddit_error", "load_error", "close_error"}

\* C34: past the credential check collect_reddit_data does not exit without
\* having attempted await reddit.close(): it returns only after a close that
\* succeeded, and it raises only after the handler attempted the close; the
\* handler leaves the exception it caught as the one raised, whether its own
\* close succeeds or raises.
C34_TeardownBeforeExit ==
    /\ []( /\ ( c_pc \in {"returned", "raised"} /\ AllCredentials(environ) ) =>
                teardown # << >>
           /\ c_pc = "returned" =>
                teardown = << "closed" >> /\ session = "closed" /\ c_exc = "none"
           /\ ( c_pc = "raised" /\ AllCredentials(environ) ) =>
                c_exc \in CollectionErrors )
    /\ [][ ( c_pc = "except" /\ c_pc' = "raised" ) =>
             /\ Len(teardown') = Len(teardown) + 1
             /\ c_exc' = c_exc ]_vars

\* Obtaining a forum handle failed after submissions had been collected, the
\* close attempted by the handler raised as well, and the collection ended
\* with the error of the forum handle.
C34_Witness ==
    /\ c_pc = "raised"
    /\ all_posts # << >>
    /\ teardown = << "raised" >>
    /\ session = "open"
    /\ c_exc = "subreddit_error"

\* Positions of run_analysis at which the job has no envelope yet.
BeforeEnvelope ==
    { "queued", "await_reddit", "minimal_report", "complete", "except",
      "validate_ticker", "get_earnings_metadata", "analyze_price_performance",
      "collect_news_articles", "collect_reddit_data", "analyze_reddit_with_llm",
      "generate_insight_report", "u90" } \cup ProgressLabels

\* C35: the sweep made by start_analysis changes neither the status record
\* nor the envelope of a job that has no envelope or whose envelope has not
\* expired; a job that is queued or running and has stored no envelope yet
\* keeps its status record and is never swept.
C35_SweepFrame ==
    /\ [][ next_job' # next_job =>
             \A k \in JobIds :
                 ( k # next_job
                   /\ ( ~HasEntry(analysis_cache, k)
                        \/ ~IsExpired(analysis_cache[k], now) ) ) =>
                     /\ analysis_status'[k] = analysis_status[k]
                     /\ analysis_cache'[k] = analysis_cache[k] ]_vars
    /\ [](\A j \in JobIds :
            pc[j] \in BeforeEnvelope =>
                /\ HasStatus(analysis_status, j)
                /\ ~HasEntry(analysis_cache, j)
                /\ j \notin swept)

\* The first job is still queued, its pending record in the store, after
\* the sweep of a second submission ran; the second job has finished and its
\* unexpired envelope outlived a clock advance.
C35_Witness ==
    /\ next_job = 3
    /\ pc[1] = "queued"
    /\ analysis_status[1].status = "pending"
    /\ pc[2] = "finished"
    /\ HasEntry(analysis_cache, 2)
    /\ now > 0

\* C36: the disconnect at the end of websocket_endpoint removes whatever
\* registration the job id has: when the connection of a listener closes,
\* the job of its URL has no registered listener afterwards, also when the
\* registration was that of a later listener; from then on send_update
\* starts no send for the job, although the later listener is still
\* connected.
C36_DisconnectByJobId ==
    /\ [][ \A a \in Listeners :
             ( IsOpen(a) /\ ws_pc'[a] = "closed" ) =>
                 active_connections'[ws_job[a]] = NoListener ]_vars
    /\ [][ \A j \in JobIds :
             ( active_connections[j] = NoListener /\ sending[j] = NoSend ) =>
                 sending'[j] = NoSend ]_vars

\* Listener b registered after listener a, both before the run began; a
\* closed and b stayed connected.  The first update of the run found no
\* registration, and b has received nothing but the replayed pending status
\* by the end of the run.
C36_Witness ==
    \E j \in JobIds, a, b \in Listeners :
        /\ a # b /\ ws_job[a] = j /\ ws_job[b] = j
        /\ ws_pc[a] = "closed" /\ ws_pc[b] = "loop"
        /\ last_reg[j] = b
        /\ active_connections[j] = NoListener
        /\ pc[j] = "finished"
        /\ Len(inbox[b]) = 1
        /\ inbox[b][1].via = "replay" /\ inbox[b][1].data.status = "pending"
        /\ \E e \in dropped : e.type = "status" /\ e.data.seq = 2

\* C37: websocket_endpoint replays the cached result whenever the job has an
\* envelope, expired or not: a listener that gets past the status replay
\* sends the result of the envelope exactly when the job id is in
\* analysis_cache, and no step of a listener changes the store or the record
\* of evictions.
C37_ReplayIgnoresExpiry ==
    [][ \A l \in Listeners :
          /\ ( ws_pc[l] \in {"accepting", "replay_status"}
               /\ ws_pc'[l] \in {"loop", "replay_result"} ) =>
                 /\ ws_pc'[l] = "replay_result" <=>
                        HasEntry(analysis_cache, ws_job[l])
                 /\ HasEntry(analysis_cache, ws_job[l]) =>
                        ws_sending'[l] =
                            ResultEvent(ws_job[l],
                                        analysis_cache[ws_job[l]].result, "replay")
          /\ ws_pc'[l] # ws_pc[l] =>
                 /\ analysis_cache' = analysis_cache
                 /\ analysis_status' = analysis_status
                 /\ expired_seen' = expired_seen /\ swept' = swept ]_vars

\* A listener is sending the replayed result of a failed job whose envelope
\* is past its expiry and still in the cache; no job was evicted.
C37_Witness ==
    \E l \in Listeners :
        /\ ws_pc[l] = "replay_result"
        /\ HasEntry(analysis_cache, ws_job[l])
        /\ IsExpired(analysis_cache[ws_job[l]], now)
        /\ ws_sending[l].data.status = "failed"
        /\ ws_job[l] \notin Evicted

\* Listener l registered when the job of its URL had failed: the status
\* replayed to it is the failed one.
RegisteredAfterFailure(l) ==
    \E i \in DOMAIN inbox[l] :
        /\ inbox[l][i].via = "replay" /\ inbox[l][i].type = "status"
        /\ inbox[l][i].data.status = "failed"

\* C38: a listener that registered after its job had failed receives the
\* failed status and then the failure payload as an event of type result,
\* both replayed by websocket_endpoint, and never an event of type error.
C38_LateListenerGetsNoError ==
    \A l \in Listeners :
        RegisteredAfterFailure(l) =>
            /\ inbox[l][1].via = "replay" /\ inbox[l][1].type = "status"
            /\ \A i \in DOMAIN inbox[l] :
                 /\ inbox[l][i].type # "error"
                 /\ inbox[l][i].type = "result" =>
                      /\ i = 2 /\ inbox[l][i].via = "replay"
                      /\ inbox[l][i].data.status = "failed"

\* How often the submission with id h occurs in a list of submissions.
Occurrences(w, h) == Cardinality({ i \in DOMAIN w : w[i].id = h })

\* C39: collect_reddit_data removes no duplicates.  An accepted hit adds one
\* entry to all_posts and one to submissions_to_process, so the submission
\* items and the pending submissions are as many as the accepted hits, a
\* submission counted once for each search that returned it; and when the
\* comments have been extracted, all_posts holds the comments of a submission
\* once for each of its occurrences among the top submissions.
C39_NoDeduplication ==
    /\ [][ ( c_pc = "iterate" /\ seen' # seen /\ Acceptable(seen'[Len(seen')]) ) =>
             /\ Len(all_posts') = Len(all_posts) + 1
             /\ all_posts'[Len(all_posts')].id = << seen'[Len(seen')].id, 0 >>
             /\ submissions_to_process' =
                    Append(submissions_to_process, seen'[Len(seen')]) ]_vars
    /\ [](c_pc \in {"subreddit", "search", "iterate", "extract"} =>
            \A h \in { seen[i].id : i \in DOMAIN seen } :
                /\ Cardinality({ i \in OfType(all_posts, "submission") :
                                   all_posts[i].id = << h, 0 >> })
                     = Cardinality({ i \in DOMAIN seen :
                                       seen[i].id = h /\ Acceptable(seen[i]) })
                /\ Occurrences(submissions_to_process, h)
                     = Cardinality({ i \in DOMAIN seen :
                                       seen[i].id = h /\ Acceptable(seen[i]) }))
    /\ [](c_pc \in {"close", "returned"} =>
            \A t \in DOMAIN top_submissions :
                LET sub == top_submissions[t] IN
                Cardinality(CommentsOf(pool, sub.id))
                  = Occurrences(top_submissions, sub.id)
                      * Len(ExtractQualityComments(sub, MAX_COMMENTS_PER_SUBMISSION)))

\* One submission was returned by three searches: the list returned holds it
\* three times, and each of its two qualifying comments three times.
C39_Witness ==
    /\ c_pc = "returned"
    /\ Len(seen) = 3
    /\ Cardinality({ i \in DOMAIN all_posts :
                       all_posts[i].id = << RepeatedSubmission.id, 0 >> }) = 3
    /\ Cardinality(CommentsOf(all_posts, RepeatedSubmission.id)) = 6
    /\ Cardinality(Ids(all_posts)) = 3

\* C40: an exception of await reddit.subreddit(...) ends the collection: it
\* goes to the outer handler, which attempts the close and re-raises, the
\* collection never returns a list, and the job that awaited it gets none of
\* the items collected before, takes no later step of the pipeline and ends
\* failed with the error recorded.
C40_ForumHandleErrorAborts ==
    /\ [][ ( c_pc = "subreddit" /\ c_exc' = "subreddit_error" ) =>
             /\ c_pc' = "except"
             /\ all_posts' = all_posts /\ searched' = searched ]_vars
    /\ [](c_exc = "subreddit_error" =>
            /\ c_pc \in {"except", "raised"}
            /\ c_pc = "raised" => teardown # << >>
            /\ pool = << >> /\ top_submissions = << >> /\ loaded = {}
            /\ \A j \in JobIds :
                 /\ reddit_posts[j] = -1
                 /\ pc[j] \notin {"u90", "minimal_report", "u75",
                                  "analyze_reddit_with_llm", "u85",
                                  "generate_insight_report", "complete",
                                  "send_result"}
                 /\ pc[j] \in {"except", "send_error", "done", "finished"} =>
                      exc[j] = RedditApiError
                 /\ pc[j] \in {"send_error", "done", "finished"} =>
                      /\ Last(writes[j]) = "failed"
                      /\ analysis_cache[j].result.status = "failed"
                      /\ analysis_cache[j].result.error = << RedditApiError.msg >>)

\* The first forum yielded two accepted submissions; obtaining the handle of
\* the second forum raised.  The close was attempted, the two items reached
\* nobody and the job finished failed.
C40_Witness ==
    \E j \in JobIds :
        /\ c_exc = "subreddit_error" /\ c_pc = "raised"
        /\ sub_i = 2
        /\ Len(all_posts) = 2
        /\ teardown # << >>
        /\ pc[j] = "finished"
        /\ reddit_posts[j] = -1
        /\ analysis_status[j].status = "failed"

=============================================================================
